---- MODULE Spec2Model ----
(***************************************************************************)
(* A model of the apple-doc-mcp server core: the technology selection      *)
(* state (server/state.ts), the tool handlers that read and change it, and *)
(* the comprehensive symbol downloader                                     *)
(* (server/services/comprehensive-symbol-downloader.ts).                   *)
(*                                                                         *)
(* Two state machines share the variables:                                 *)
(*   Spec     the tool handlers running against ServerState                *)
(*   SpecDL   one ComprehensiveSymbolDownloader instance over a remote     *)
(*            reference graph, with a clock for its timers                 *)
(*   LiveDL   SpecDL with the fairness of the event loop                   *)
(***************************************************************************)
EXTENDS Integers, Sequences, FiniteSets, TLC

\* ------------------------------------------------------------------ bounds
\* Identifier numbers of the remote reference graph.
NumIds == 5
\* How many times downloadAllSymbols is called on the one downloader instance.
MaxCalls == 2
\* The longest a fetch stays in flight, in clock steps (the request timeout).
MaxFetchSteps == 1
\* Tool calls the server may be handling at once.
MaxInFlight == 2
\* Tool calls over the life of the server.
MaxRequests == 3
\* Save calls over the life of a FileCache.
MaxSaves == 2
\* Calls over the life of an AppleDevDocsClient.
MaxClientCalls == 3
\* How far the client's clock runs, in steps of half the cache timeout.
MaxTicks == 3
\* search_symbols calls with filters in one behaviour
MaxFilteredSearches == 1
\* Capitalized words joined into one piece of text
MaxWords == 3
\* The maxSize and the timeout an LRUCache is constructed with, and how far
\* its clock runs
LruMaxSize == 2
LruTimeout == 1
MaxLruTicks == 3

\* ------------------------------------------------------------- downloader
\* comprehensive-symbol-downloader.ts:30-36
rateLimitDelay == 100
maxRetries == 3
\* comprehensive-symbol-downloader.ts:162 (depth < 3)
MaxDepth == 3
\* The clock advances in steps of one rate-limit delay.
TimeStep == rateLimitDelay

None == "none"

\* An identifier as it appears in topicSections and references: the symbol
\* number n, written with the doc://com.apple.documentation/ prefix or without.
Identifier == [pre : BOOLEAN, n : 1..NumIds]
Doc(m) == [pre |-> TRUE, n |-> m]
Bare(m) == [pre |-> FALSE, n |-> m]

\* identifier.replace('doc://com.apple.documentation/', '')
\*           .replace(/^documentation\//, 'documentation/'): the prefix is
\* dropped, the second replacement changes nothing; the symbol path
\* documentation/<n> is the cache key of getSymbol.
Digit == <<"1", "2", "3", "4", "5", "6", "7", "8", "9">>
SymbolPath(identifier) == <<"documentation", "/", Digit[identifier.n]>>

\* The order in which a Set of identifiers is iterated (insertion order of the
\* document, taken here as ascending).
Rank(identifier) == 2 * identifier.n + (IF identifier.pre THEN 0 ELSE 1)

RECURSIVE SortedSeq(_)
SortedSeq(S) ==
  IF S = {} THEN <<>>
  ELSE LET m == CHOOSE x \in S : \A y \in S : Rank(x) <= Rank(y)
       IN <<m>> \o SortedSeq(S \ {m})

\* The remote origin: a family of reference graphs. Each document has the
\* identifiers of its topicSections and the keys of its references.
Shapes == {"chain", "cycle", "self", "diamond", "alias", "empty"}

EmptyDoc == [topicIds |-> {}, refIds |-> {}]

\* The framework document of each graph.
FrameworkDoc(shape) ==
  CASE shape = "chain"   -> [topicIds |-> {Doc(1)}, refIds |-> {}]
    [] shape = "cycle"   -> [topicIds |-> {Doc(1)}, refIds |-> {Doc(1)}]
    [] shape = "self"    -> [topicIds |-> {Doc(1)}, refIds |-> {Doc(1), Doc(2)}]
    [] shape = "diamond" -> [topicIds |-> {Doc(1)}, refIds |-> {Doc(2)}]
    [] shape = "alias"   -> [topicIds |-> {Doc(1)}, refIds |-> {Bare(1)}]
    [] OTHER             -> EmptyDoc

\* The symbol document stored at a symbol path.
SymbolDoc(shape, p) ==
  CASE shape = "chain" ->
         [topicIds |-> IF p < NumIds THEN {Doc(p + 1)} ELSE {}, refIds |-> {}]
    [] shape = "cycle" ->
         [topicIds |-> {}, refIds |-> IF p = 1 THEN {Doc(2)} ELSE {Doc(1)}]
    [] shape = "self" ->
         [topicIds |-> {Doc(p)}, refIds |-> {Doc(p), Doc(2)}]
    [] shape = "diamond" ->
         [topicIds |-> {}, refIds |-> IF p \in {1, 2} THEN {Doc(3)} ELSE {}]
    [] OTHER -> EmptyDoc

\* extractAllIdentifiers: the identifiers of the topic sections, then the keys
\* of the references, each once.
extractAllIdentifiers(data) ==
  SortedSeq(data.topicIds) \o SortedSeq(data.refIds \ data.topicIds)

\* A constant delay between attempts (what C8 rules out).
ConstantDelay(attempt) == rateLimitDelay

\* Exponential backoff before attempt + 1.
BackoffDelay(attempt) == rateLimitDelay * (2 ^ (attempt - 1))

\* ----------------------------------------------------------------- strings
\* A string is a sequence of characters. A run of characters that no
\* operation here ever splits ("documentation", "doc:") is written as one
\* element.
DocPrefix == <<"doc:", "/", "/", "com.apple.documentation", "/">>
DocumentationSlash == <<"documentation", "/">>

\* String.prototype.toLowerCase
LowerChar(c) ==
  CASE c = "U" -> "u" [] c = "K" -> "k" [] c = "D" -> "d" [] c = "A" -> "a"
    [] c = "G" -> "g" [] c = "I" -> "i" [] c = "L" -> "l" [] c = "B" -> "b"
    [] c = "O" -> "o" [] c = "S" -> "s"
    [] OTHER -> c
toLowerCase(str) == [i \in 1..Len(str) |-> LowerChar(str[i])]

\* String.prototype.trim
RECURSIVE trim(_)
trim(str) ==
  IF str = <<>> THEN str
  ELSE IF Head(str) = " " THEN trim(Tail(str))
  ELSE IF str[Len(str)] = " " THEN trim(SubSeq(str, 1, Len(str) - 1))
  ELSE str

\* String.prototype.startsWith
startsWith(str, prefix) ==
  Len(prefix) <= Len(str) /\ SubSeq(str, 1, Len(prefix)) = prefix

\* String.prototype.includes
includes(str, part) ==
  \E i \in 0..(Len(str) - Len(part)) : SubSeq(str, i + 1, i + Len(part)) = part

\* str.replace(pattern, '') with a string pattern: the first occurrence goes.
replaceFirst(str, pattern) ==
  IF includes(str, pattern)
  THEN LET i == CHOOSE k \in 0..(Len(str) - Len(pattern)) :
                  /\ SubSeq(str, k + 1, k + Len(pattern)) = pattern
                  /\ \A j \in 0..(k - 1) :
                       SubSeq(str, j + 1, j + Len(pattern)) # pattern
       IN SubSeq(str, 1, i) \o SubSeq(str, i + Len(pattern) + 1, Len(str))
  ELSE str

\* str.replace(/^documentation\//, '')
stripLeadingDocumentation(str) ==
  IF startsWith(str, DocumentationSlash)
  THEN SubSeq(str, Len(DocumentationSlash) + 1, Len(str))
  ELSE str

\* identifier.split('/'), last element
RECURSIVE lastSegment(_)
lastSegment(str) ==
  IF \E i \in 1..Len(str) : str[i] = "/"
  THEN lastSegment(Tail(str))
  ELSE str

\* name.replace(/[^a-z0-9-_]/gi, '_')
sanitizeFrameworkName(name) ==
  [i \in 1..Len(name) |-> IF name[i] \in {"/", " ", ".", ":"} THEN "_" ELSE name[i]]

\* ----------------------------------------------------------------- catalog
\* The technology catalog of the origin (technologies.json).
Ui == <<"U", "i">>
Kit == <<"K", "i", "t">>
DocId(name) == DocPrefix \o DocumentationSlash \o name

Catalog ==
  [T1 |-> [title |-> Ui, identifier |-> DocId(Ui),
           kind |-> "symbol", role |-> "collection"],
   T2 |-> [title |-> Kit, identifier |-> DocId(Kit),
           kind |-> "symbol", role |-> "collection"],
   X1 |-> [title |-> <<"D", "o", "c">>, identifier |-> DocId(<<"D", "o", "c">>),
           kind |-> "article", role |-> "collection"],
   X2 |-> [title |-> <<"A", "r">>, identifier |-> DocId(<<"A", "r">>),
           kind |-> "symbol", role |-> "overview"]]

\* Object.values(technologies), in the order of the file.
CatalogOrder == <<"T1", "T2", "X1", "X2">>
Technologies == {"T1", "T2"}

\* ------------------------------------------------------------- ServerState
\* state.ts:17-23
\* An optional object field is the empty sequence when undefined and the
\* one-element sequence of the object otherwise.
Undefined == <<>>
Some(object) == <<object>>
The(field) == field[1]

NewServerState ==
  [activeTechnology |-> None,
   activeFrameworkData |-> None,
   frameworkIndex |-> Undefined,
   expandedIdentifiers |-> {},
   localSymbolIndex |-> Undefined]

\* A reset that keeps the local symbol index (what C1 rules out).
resetKeepingLocalIndex(st) ==
  [st EXCEPT !.activeFrameworkData = None,
             !.frameworkIndex = Undefined,
             !.expandedIdentifiers = {}]

\* state.ts:98-103
resetIndexForNewTechnology(st) ==
  [st EXCEPT !.localSymbolIndex = Undefined,
             !.activeFrameworkData = None,
             !.frameworkIndex = Undefined,
             !.expandedIdentifiers = {}]

\* technology?.identifier, the empty string standing for undefined
IdentifierOf(technology) ==
  IF technology = None THEN <<>> ELSE Catalog[technology].identifier

\* A reset only when the technology is removed (what C2 rules out).
TechnologyRemoved(previousTechnology, technology) == technology = None

\* Whether setActiveTechnology resets: no technology, or another identifier.
TechnologyChanged(previousTechnology, technology) ==
  \/ technology = None
  \/ IdentifierOf(previousTechnology) # IdentifierOf(technology)

\* state.ts:29-39
setActiveTechnology(st, technology) ==
  LET set == [st EXCEPT !.activeTechnology = technology]
  IN IF TechnologyChanged(st.activeTechnology, technology)
     THEN resetIndexForNewTechnology(set)
     ELSE set

\* state.ts:49-51
clearActiveFrameworkData(st) == [st EXCEPT !.activeFrameworkData = None]

\* state.ts:45-47
setActiveFrameworkData(st, data) == [st EXCEPT !.activeFrameworkData = data]

\* state.ts:57-59
setFrameworkIndex(st, index) == [st EXCEPT !.frameworkIndex = Some(index)]

\* state.ts:61-64
clearFrameworkIndex(st) ==
  [st EXCEPT !.frameworkIndex = Undefined, !.expandedIdentifiers = {}]

\* state.ts:66-68
hasExpandedIdentifier(st, identifier) == identifier \in st.expandedIdentifiers

\* state.ts:70-72
markIdentifierExpanded(st, identifier) ==
  [st EXCEPT !.expandedIdentifiers = @ \cup {identifier}]

\* --------------------------------------------------- origin documents
\* A reference of a document: its key (an identifier), kind, title and url.
Leaf(c) == <<"/", c>>
Url(name, c) == <<"/", "documentation", "/">> \o toLowerCase(name) \o Leaf(c)
Ref(name, c) ==
  [id |-> DocId(name \o Leaf(c)), kind |-> "symbol", title |-> <<c>>,
   url |-> Url(name, c)]
RefA == Ref(Ui, "a")
RefB == Ref(Ui, "b")
RefC == Ref(Kit, "c")

\* The catalog entries as the references of technologies.json.
TechnologyRef(t) ==
  [id |-> Catalog[t].identifier, kind |-> Catalog[t].kind,
   title |-> Catalog[t].title,
   url |-> <<"/", "documentation", "/">> \o toLowerCase(Catalog[t].title)]

\* Documents have metadata.title, metadata.url (empty when the document
\* has none), the identifiers of their topic sections and their references.
TechnologiesData ==
  [title |-> <<>>, url |-> <<>>, topicIdentifiers |-> <<>>,
   references |-> {TechnologyRef(t) : t \in DOMAIN Catalog}]

FrameworkData(t) ==
  IF t = "T1"
  THEN [title |-> Ui, url |-> <<>>, topicIdentifiers |-> <<RefA.id>>,
        references |-> {RefA}]
  ELSE [title |-> Kit, url |-> <<>>, topicIdentifiers |-> <<RefC.id>>,
        references |-> {RefC}]

\* The technology whose framework document the origin serves under a name.
FrameworkNamed(frameworkName) ==
  CHOOSE t \in Technologies : Catalog[t].title = frameworkName

\* The symbol documents of the origin, by path (documentation/<name>/<leaf>).
SymbolPaths ==
  {DocumentationSlash \o Ui \o Leaf("a"), DocumentationSlash \o Kit \o Leaf("c")}

SymbolData(path) ==
  IF path = DocumentationSlash \o Ui \o Leaf("a")
  THEN [title |-> <<"a">>, url |-> Url(Ui, "a"), topicIdentifiers |-> <<>>,
        references |-> {RefA, RefB}]
  ELSE [title |-> <<"c">>, url |-> Url(Kit, "c"), topicIdentifiers |-> <<>>,
        references |-> {RefC, RefB}]

\* The files of the cache directory.
TechnologiesFile == [kind |-> "technologies", key |-> <<"technologies">>]
SymbolFile(p) == [kind |-> "symbol", key |-> p]
FrameworkFile(name) == [kind |-> "framework", key |-> sanitizeFrameworkName(name)]

\* JSON.parse(readFileSync(file)) for a file of the server's cache.
FileData(file) ==
  CASE file.kind = "technologies" -> TechnologiesData
    [] file.kind = "framework" -> FrameworkData(FrameworkNamed(file.key))
    [] OTHER -> SymbolData(file.key)

\* identifier.replace('doc://com.apple.documentation/', '')
\*           .replace(/^documentation\//, 'documentation/')
symbolPathOf(identifier) == replaceFirst(identifier, DocPrefix)

\* -------------------------------------------------------- LocalSymbolIndex
\* local-symbol-index.ts:240-249
NewLocalSymbolIndex(technologyIdentifier) ==
  [technologyIdentifier |-> technologyIdentifier, symbols |-> {},
   indexBuilt |-> FALSE]

\* The technology filter of processSymbolData and processReferences.
OutsideTechnology(technologyIdentifier, path) ==
  /\ technologyIdentifier # <<>>
  /\ path # <<>>
  /\ ~includes(toLowerCase(path), toLowerCase(technologyIdentifier))

\* processReferences: the keys of the references that get an entry.
ReferenceEntries(technologyIdentifier, references) ==
  {ref.id : ref \in
     {r \in references :
        /\ r.kind = "symbol"
        /\ r.title # <<>>
        /\ ~OutsideTechnology(technologyIdentifier, r.url)}}

\* metadata.title || 'Unknown'
Unknown == <<"Unknown">>

\* processSymbolData: the keys of the entries one document adds.
DocumentEntries(technologyIdentifier, data) ==
  IF OutsideTechnology(technologyIdentifier, data.url)
  THEN {}
  ELSE {IF data.url # <<>> THEN data.url
        ELSE IF data.title # <<>> THEN data.title ELSE Unknown}
       \cup ReferenceEntries(technologyIdentifier, data.references)

\* buildIndexFromCache over the files of the cache directory.
buildIndexFromCache(index, files) ==
  IF index.indexBuilt
  THEN index
  ELSE [index EXCEPT
          !.symbols = @ \cup UNION {DocumentEntries(index.technologyIdentifier,
                                                    FileData(f)) : f \in files},
          !.indexBuilt = TRUE]

getSymbolCount(index) == Cardinality(index.symbols)

\* The title of an indexed entry.
EntryTitle(id) ==
  IF \E r \in {RefA, RefB, RefC} : id \in {r.id, r.url}
  THEN (CHOOSE r \in {RefA, RefB, RefC} : id \in {r.id, r.url}).title
  ELSE IF \E t \in DOMAIN Catalog : id = Catalog[t].identifier
  THEN Catalog[CHOOSE t \in DOMAIN Catalog : id = Catalog[t].identifier].title
  ELSE id

\* search: the entries with a positive score for a one-term query.
search(index, query) ==
  {id \in index.symbols : includes(toLowerCase(EntryTitle(id)), toLowerCase(query))}

\* state.ts:82-91
getLocalSymbolIndex(st) ==
  IF st.localSymbolIndex = Undefined
  THEN [st EXCEPT !.localSymbolIndex =
          Some(NewLocalSymbolIndex(
                 stripLeadingDocumentation(
                   replaceFirst(IdentifierOf(st.activeTechnology), DocPrefix))))]
  ELSE st

\* ------------------------------------------------------ choose_technology
\* choose-technology.ts:6-26, with 4 standing for Infinity
fuzzyScore(a, b) ==
  IF a = <<>> \/ b = <<>> THEN 4
  ELSE LET lowerA == toLowerCase(a)
           lowerB == toLowerCase(b)
       IN IF lowerA = lowerB THEN 0
          ELSE IF startsWith(lowerA, lowerB) \/ startsWith(lowerB, lowerA) THEN 1
          ELSE IF includes(lowerA, lowerB) \/ includes(lowerB, lowerA) THEN 2
          ELSE 3

\* A check that rejects only entries wrong in both kind and role (what C3
\* rules out).
ensureFrameworkLax(technology) ==
  Catalog[technology].kind # "symbol" /\ Catalog[technology].role # "collection"

\* choose-technology.ts:28-35: whether ensureFramework throws
ensureFrameworkThrows(technology) ==
  Catalog[technology].kind # "symbol" \/ Catalog[technology].role # "collection"

\* candidates.find(predicate): of the entries that satisfy the predicate,
\* the first in the order of the catalog
FindFirst(matching) ==
  IF matching = {}
  THEN None
  ELSE CatalogOrder[CHOOSE i \in 1..Len(CatalogOrder) :
                      /\ CatalogOrder[i] \in matching
                      /\ \A j \in 1..(i - 1) : CatalogOrder[j] \notin matching]

\* choose-technology.ts:43-68: the chosen candidate, or None
ChooseCandidate(name, identifier) ==
  LET normalizedName == trim(toLowerCase(name))
      normalizedIdentifier == trim(toLowerCase(identifier))
      candidates == DOMAIN Catalog
      byIdentifier ==
        IF normalizedIdentifier # <<>>
        THEN FindFirst({t \in candidates :
               toLowerCase(Catalog[t].identifier) = normalizedIdentifier})
        ELSE None
      byName ==
        IF byIdentifier = None /\ normalizedName # <<>>
        THEN FindFirst({t \in candidates :
               toLowerCase(Catalog[t].title) = normalizedName})
        ELSE byIdentifier
      best == CHOOSE m \in 0..4 :
                /\ \E t \in candidates : fuzzyScore(Catalog[t].title, name) = m
                /\ \A t \in candidates : fuzzyScore(Catalog[t].title, name) >= m
  IN IF byName = None /\ normalizedName # <<>> /\ best < 3
     THEN FindFirst({t \in candidates : fuzzyScore(Catalog[t].title, name) = best})
     ELSE byName

\* --------------------------------------------------------------- variables
VARIABLES
  state,              \* the ServerState object
  cacheFiles,         \* the files of the disk cache, by kind and key
  shape,              \* the remote reference graph of this run
  now,                \* the clock, in ms since the running layer was dispatched
  downloadedSymbols,  \* ComprehensiveSymbolDownloader.downloadedSymbols
  dlPhase,            \* "idle", "framework" (awaiting getFramework), "layer"
  dlDepth,            \* depth of the running downloadSymbolsRecursively
  dlTasks,            \* the promises of the running layer, one per identifier
  newIdentifiers,     \* newIdentifiers of the running layer
  dlCalls,            \* calls of downloadAllSymbols so far
  dlResult,           \* how the last call ended: None, "ok" or an error
  dlAtStart,          \* downloadedSymbols when the running call began
  dlSeen,             \* per call, the identifiers it listed or discovered
  dlListed,           \* identifiers a layer of the running call listed
  dlExhausted,        \* identifiers whose every attempt failed, this call
  dlFetched,          \* identifiers a fetch attempt was started for, this call
  prevFirstAt,        \* when the last first attempt of an earlier layer began
  reqs,               \* the tool calls in flight: each handler's position and locals
  nCalls,             \* tool calls received so far
  indexMaps,          \* the framework index Maps made so far, by their number
  beforeSwitch,       \* what state held just before the last technology change
  lastReply           \* the tool and the kind of the last reply sent

dlVars == <<shape, now, downloadedSymbols, dlPhase, dlDepth, dlTasks,
            newIdentifiers, dlCalls, dlResult, dlAtStart, dlSeen, dlListed,
            dlExhausted, dlFetched, prevFirstAt>>

srvVars == <<reqs, nCalls, indexMaps, beforeSwitch, lastReply>>

\* The state of the library objects that are modelled on their own, each
\* under its own specification.
VARIABLES
  cacheDir,           \* FileCache: the files of its cache directory
  fcHistory,          \* FileCache: the saves made so far, oldest first
  fcDamaged,          \* FileCache: the files cut short outside the program
  fcLast              \* FileCache: the last call and what it returned

fcVars == <<cacheDir, fcHistory, fcDamaged, fcLast>>

VARIABLES
  docsDir,            \* AppleDevDocsClient: the files of its docs directory
  memory,             \* AppleDevDocsClient.cache, the responses kept in memory
  clock,              \* Date.now(), in ms since the client was constructed
  pending,            \* the calls that await their network request
  nClient,            \* calls of the client so far
  clStart,            \* the call started last, as far as it ran at once
  fetchedAt,          \* the network requests that succeeded so far
  succeeded,          \* the getFramework and getSymbol calls that succeeded
  clDamaged           \* the docs files cut short outside the program

clVars == <<docsDir, memory, clock, pending, nClient, clStart, fetchedAt,
            succeeded, clDamaged>>

VARIABLES
  ixSymbols,          \* LocalSymbolIndex.symbols: the ids, in insertion order
  ixFound             \* the last search of the index and what it returned

ixVars == <<ixSymbols, ixFound>>

VARIABLES
  fbIndexed,          \* whether the symbol index of the technology is built
  fbSearch,           \* the search under way: where it is and what it has
  hsFound             \* the last search_symbols call with filters: what it
                      \* found, kept and returned

fbVars == <<fbIndexed, fbSearch, hsFound>>

VARIABLES
  tkWords,            \* the words a text given to tokenize is joined of
  tkDone,             \* whether tokenize has returned
  tkTokens            \* the tokens it returned

tkVars == <<tkWords, tkDone, tkTokens>>

VARIABLES
  lruCache,           \* LRUCache.cache: the entries of the Map, oldest first
  lruClock            \* Date.now() for the LRUCache

lruVars == <<lruCache, lruClock>>

VARIABLES
  liIndex,            \* a LocalSymbolIndex: technologyIdentifier, symbols,
                      \* indexBuilt
  liFiles,            \* the .json files of its cacheDir
  liLast              \* the call that has just returned, if the last step
                      \* was one: the method and the symbol count it was
                      \* called with

liVars == <<liIndex, liFiles, liLast>>

libVars == <<fcVars, clVars, ixVars, fbVars, tkVars, lruVars, liVars>>

\* No call of a library object so far.
NoCall == [op |-> "none", kind |-> "none", key |-> <<>>, result |-> "none"]

\* A FileCache that was just constructed, over a cache directory with no
\* file in it.
NewFileCache ==
  /\ cacheDir = {}
  /\ fcHistory = <<>>
  /\ fcDamaged = {}
  /\ fcLast = NoCall

\* No call of the client so far.
NoStart ==
  [op |-> "none", arg |-> <<>>, url |-> <<>>, at |-> 0,
   damaged |-> FALSE, fetch |-> FALSE, network |-> FALSE, result |-> "none"]

\* An AppleDevDocsClient that was just constructed, over a docs directory
\* with no file in it.
NewClient ==
  /\ docsDir = {}
  /\ memory = {}
  /\ clock = 0
  /\ pending = {}
  /\ nClient = 0
  /\ clStart = NoStart
  /\ fetchedAt = {}
  /\ succeeded = {}
  /\ clDamaged = {}

\* No search of the index so far.
NoSearch ==
  [query |-> <<>>, maxResults |-> 0, ids |-> <<>>, scores |-> <<>>,
   results |-> <<>>]

\* A LocalSymbolIndex that was just constructed.
NewIndex ==
  /\ ixSymbols = <<>>
  /\ ixFound = NoSearch

\* The library objects before any call of them.
\* No search by the handler so far.
NoSymbolSearch ==
  [pc |-> "idle", query |-> <<>>, maxResults |-> 0, ran |-> <<>>,
   results |-> <<>>]

\* No search with filters so far.
NoFilteredSearch ==
  [calls |-> 0,
   via |-> "none", query |-> <<>>, maxResults |-> 0, platform |-> <<>>,
   symbolType |-> <<>>, ids |-> <<>>, found |-> <<>>, kept |-> <<>>,
   results |-> <<>>]

NewSymbolSearch ==
  /\ fbIndexed = FALSE
  /\ fbSearch = NoSymbolSearch
  /\ hsFound = NoFilteredSearch

\* No text given to tokenize so far.
NoText ==
  /\ tkWords = <<>>
  /\ tkDone = FALSE
  /\ tkTokens = {}

\* An LRUCache that was just constructed.
NewLRUCache ==
  /\ lruCache = <<>>
  /\ lruClock = 0

\* new LocalSymbolIndex(client, 'Ui') over an empty cache directory
NewIndexOfUi ==
  /\ liIndex = NewLocalSymbolIndex(Ui)
  /\ liFiles = {}
  /\ liLast = [method |-> "new", count |-> 0]

LibInit ==
  /\ NewFileCache /\ NewClient /\ NewIndex /\ NewSymbolSearch /\ NoText
  /\ NewLRUCache /\ NewIndexOfUi

\* What a call of downloadAllSymbols keeps for the claims about it.
dlHist == <<dlAtStart, dlSeen, dlListed, dlExhausted, dlFetched, prevFirstAt>>

\* The time of a first attempt that has not begun.
NotYet == 0 - 1

\* A promise that fetches whether or not its identifier is marked downloaded
\* (what C5 rules out).
NewTaskNoSkip(identifier, downloaded, t) ==
  [id |-> identifier, st |-> "delay", attempt |-> 0,
   wakeAt |-> t + rateLimitDelay,
   startedAt |-> 0, failedAt |-> 0, firstAt |-> NotYet, hit |-> FALSE,
   data |-> FALSE, refetch |-> FALSE]

\* One promise of identifiers.map(async identifier => ...): the already
\* downloaded check and the rate-limit timer run when the promise is created.
NewTask(identifier, downloaded, t) ==
  IF identifier \in downloaded
  THEN [id |-> identifier, st |-> "skip", attempt |-> 0, wakeAt |-> 0,
        startedAt |-> 0, failedAt |-> 0, firstAt |-> NotYet, hit |-> FALSE,
        data |-> FALSE, refetch |-> FALSE]
  ELSE [id |-> identifier, st |-> "delay", attempt |-> 0,
        wakeAt |-> t + rateLimitDelay,
        startedAt |-> 0, failedAt |-> 0, firstAt |-> NotYet, hit |-> FALSE,
        data |-> FALSE, refetch |-> FALSE]

\* identifiers.map(...): every promise runs up to its first await.
StartLayer(identifiers, downloaded, t) ==
  [i \in 1..Len(identifiers) |-> NewTask(identifiers[i], downloaded, t)]

SeqRange(s) == {s[i] : i \in 1..Len(s)}

\* A last failed attempt that rejects the promise (what C9 rules out).
ExhaustedThrows == "threw"

\* What downloadSymbolWithRetry does after the last failed attempt: it
\* returns undefined, and the promise of the identifier is fulfilled.
ExhaustedOutcome == "done"

\* A Promise.all that does not wait for tasks in their backoff (what C11
\* rules out).
SettledOrWaiting(task) == task.st \in {"skip", "done", "backoff"}

Settled(task) == task.st \in {"skip", "done"}

\* A recursion one level deeper (what C7 rules out).
ShouldRecurseDeeper(newIds, depth) == Len(newIds) > 0 /\ depth <= MaxDepth

\* The recursion happens for new identifiers below the depth limit.
ShouldRecurse(newIds, depth) == Len(newIds) > 0 /\ depth < MaxDepth

\* downloadAllSymbols up to its first await.
DownloadAllSymbols ==
  /\ dlPhase = "idle"
  /\ dlCalls < MaxCalls
  /\ dlCalls' = dlCalls + 1
  /\ dlAtStart' = downloadedSymbols
  /\ dlSeen' = [dlSeen EXCEPT ![dlCalls + 1] = {}]
  /\ dlListed' = {}
  /\ dlExhausted' = {}
  /\ dlFetched' = {}
  /\ IF state.activeTechnology = None
     THEN /\ dlResult' = "error_not_selected"
          /\ dlPhase' = "idle"
     ELSE /\ dlResult' = None
          /\ dlPhase' = "framework"
  /\ UNCHANGED <<srvVars, libVars>>
  /\ UNCHANGED <<shape, now, downloadedSymbols, dlDepth, dlTasks,
                 newIdentifiers, prevFirstAt, state, cacheFiles>>

\* getFramework fails: downloadAllSymbols throws.
FrameworkFetchFails ==
  /\ dlPhase = "framework"
  /\ FrameworkFile(Catalog[state.activeTechnology].title) \notin cacheFiles
  /\ dlPhase' = "idle"
  /\ dlResult' = "error_framework_fetch"
  /\ UNCHANGED <<srvVars, libVars>>
  /\ UNCHANGED <<shape, now, downloadedSymbols, dlDepth, dlTasks,
                 newIdentifiers, dlCalls, dlHist, state, cacheFiles>>

\* getFramework returns: the initial identifiers start layer 0.
FrameworkFetched ==
  /\ dlPhase = "framework"
  /\ LET initialIdentifiers == extractAllIdentifiers(FrameworkDoc(shape))
     IN /\ dlTasks' = StartLayer(initialIdentifiers, downloadedSymbols, now)
        /\ dlSeen' = [dlSeen EXCEPT ![dlCalls] = SeqRange(initialIdentifiers)]
        /\ dlListed' = SeqRange(initialIdentifiers)
  /\ cacheFiles' = cacheFiles \cup {FrameworkFile(Catalog[state.activeTechnology].title)}
  /\ dlPhase' = "layer"
  /\ dlDepth' = 0
  /\ newIdentifiers' = <<>>
  /\ UNCHANGED <<srvVars, libVars>>
  /\ UNCHANGED <<shape, now, downloadedSymbols, dlCalls, dlResult, dlAtStart,
                 dlExhausted, dlFetched, prevFirstAt, state>>

\* A fetch attempt starts: getSymbol reads the disk cache first. The task
\* remembers when its first attempt began and whether an attempt began while
\* its identifier was already marked downloaded.
StartAttempt(i, k) ==
  /\ dlTasks' = [dlTasks EXCEPT ![i] =
       [@ EXCEPT !.st = "fetching", !.attempt = k, !.startedAt = now,
                 !.wakeAt = 0,
                 !.firstAt = IF k = 1 THEN now ELSE @,
                 !.hit = SymbolFile(SymbolPath(dlTasks[i].id)) \in cacheFiles,
                 !.refetch = @ \/ dlTasks[i].id \in downloadedSymbols]]
  /\ dlFetched' = dlFetched \cup {dlTasks[i].id}

\* The rate-limit timer of a promise fires: the first attempt starts.
RateLimitElapsed(i) ==
  /\ dlPhase = "layer"
  /\ i \in 1..Len(dlTasks)
  /\ dlTasks[i].st = "delay"
  /\ now >= dlTasks[i].wakeAt
  /\ StartAttempt(i, 1)
  /\ UNCHANGED <<srvVars, libVars>>
  /\ UNCHANGED <<shape, now, downloadedSymbols, dlPhase, dlDepth,
                 newIdentifiers, dlCalls, dlResult, dlAtStart, dlSeen,
                 dlListed, dlExhausted, prevFirstAt, state,
                 cacheFiles>>

\* The backoff timer fires: downloadSymbolWithRetry(identifier, attempt + 1).
BackoffElapsed(i) ==
  /\ dlPhase = "layer"
  /\ i \in 1..Len(dlTasks)
  /\ dlTasks[i].st = "backoff"
  /\ now >= dlTasks[i].wakeAt
  /\ StartAttempt(i, dlTasks[i].attempt + 1)
  /\ UNCHANGED <<srvVars, libVars>>
  /\ UNCHANGED <<shape, now, downloadedSymbols, dlPhase, dlDepth,
                 newIdentifiers, dlCalls, dlResult, dlAtStart, dlSeen,
                 dlListed, dlExhausted, prevFirstAt, state,
                 cacheFiles>>

\* The identifiers of a fetched document that are not marked are pushed.
Pushed(data, downloaded) ==
  SelectSeq(extractAllIdentifiers(data), LAMBDA newId : newId \notin downloaded)

\* getSymbol returns data: the identifier is marked, the document is on disk.
FetchSucceeds(i) ==
  /\ dlPhase = "layer"
  /\ i \in 1..Len(dlTasks)
  /\ dlTasks[i].st = "fetching"
  /\ LET identifier == dlTasks[i].id
         data == SymbolDoc(shape, identifier.n)
         marked == downloadedSymbols \cup {identifier}
     IN /\ downloadedSymbols' = marked
        /\ newIdentifiers' = newIdentifiers \o Pushed(data, marked)
        /\ dlSeen' = [dlSeen EXCEPT
                        ![dlCalls] = @ \cup SeqRange(Pushed(data, marked))]
        /\ cacheFiles' = cacheFiles \cup {SymbolFile(SymbolPath(identifier))}
  /\ dlTasks' = [dlTasks EXCEPT ![i] =
       [@ EXCEPT !.st = "done", !.data = TRUE, !.startedAt = 0, !.failedAt = 0]]
  /\ UNCHANGED <<srvVars, libVars>>
  /\ UNCHANGED <<shape, now, dlPhase, dlDepth, dlCalls, dlResult, dlAtStart,
                 dlListed, dlExhausted, dlFetched, prevFirstAt,
                 state>>

\* getSymbol throws (the request failed; a cached symbol is read from disk).
FetchFails(i) ==
  /\ dlPhase = "layer"
  /\ i \in 1..Len(dlTasks)
  /\ dlTasks[i].st = "fetching"
  /\ ~dlTasks[i].hit
  /\ IF dlTasks[i].attempt < maxRetries
     THEN /\ dlTasks' = [dlTasks EXCEPT ![i] =
               [@ EXCEPT !.st = "backoff", !.failedAt = now, !.startedAt = 0,
                         !.wakeAt = now + BackoffDelay(dlTasks[i].attempt)]]
          /\ UNCHANGED dlExhausted
     ELSE /\ dlTasks' = [dlTasks EXCEPT ![i] =
               [@ EXCEPT !.st = ExhaustedOutcome, !.failedAt = now,
                         !.startedAt = 0]]
          /\ dlExhausted' = dlExhausted \cup {dlTasks[i].id}
  /\ UNCHANGED <<srvVars, libVars>>
  /\ UNCHANGED <<shape, now, downloadedSymbols, dlPhase, dlDepth,
                 newIdentifiers, dlCalls, dlResult, dlAtStart, dlSeen,
                 dlListed, dlFetched, prevFirstAt, state,
                 cacheFiles>>

Max(a, b) == IF a >= b THEN a ELSE b

\* When the latest first attempt so far began, relative to a clock restarted
\* at t; a gap of a whole rate-limit delay or more is kept as that delay.
LastFirstAttempt(tasks, prev, t) ==
  LET firsts == {tasks[i].firstAt : i \in 1..Len(tasks)} \ {NotYet}
      last == IF firsts = {} THEN prev
              ELSE CHOOSE x \in firsts : \A y \in firsts : y <= x
  IN Max(last - t, 0 - rateLimitDelay)

\* await Promise.all(promises) returns (or rejects with the first rejected
\* promise), then the recursion on the new identifiers.
LayerSettles ==
  /\ dlPhase = "layer"
  /\ \/ \A i \in 1..Len(dlTasks) : Settled(dlTasks[i])
     \/ \E i \in 1..Len(dlTasks) : dlTasks[i].st = "threw"
  /\ IF \E i \in 1..Len(dlTasks) : dlTasks[i].st = "threw"
     THEN /\ dlPhase' = "idle"
          /\ dlResult' = "error_symbol_fetch"
          /\ dlTasks' = <<>>
          /\ dlDepth' = 0
          /\ UNCHANGED dlListed
     ELSE IF ShouldRecurse(newIdentifiers, dlDepth)
     THEN /\ dlTasks' = StartLayer(newIdentifiers, downloadedSymbols, 0)
          /\ dlDepth' = dlDepth + 1
          /\ dlListed' = dlListed \cup SeqRange(newIdentifiers)
          /\ UNCHANGED <<dlPhase, dlResult>>
     ELSE /\ dlPhase' = "idle"
          /\ dlResult' = "ok"
          /\ dlTasks' = <<>>
          /\ dlDepth' = 0
          /\ UNCHANGED dlListed
  /\ newIdentifiers' = <<>>
  /\ now' = 0
  /\ prevFirstAt' = LastFirstAttempt(dlTasks, prevFirstAt, now)
  /\ UNCHANGED <<srvVars, libVars>>
  /\ UNCHANGED <<shape, downloadedSymbols, dlCalls, dlAtStart, dlSeen,
                 dlExhausted, dlFetched, state, cacheFiles>>

\* Time passes: no due timer is left waiting and no fetch outlives the
\* request timeout.
Tick ==
  /\ dlPhase = "layer"
  /\ \E i \in 1..Len(dlTasks) : dlTasks[i].st \in {"delay", "backoff", "fetching"}
  /\ \A i \in 1..Len(dlTasks) :
       /\ dlTasks[i].st \in {"delay", "backoff"} => dlTasks[i].wakeAt > now
       /\ dlTasks[i].st = "fetching" =>
            now - dlTasks[i].startedAt < MaxFetchSteps * TimeStep
  /\ now' = now + TimeStep
  /\ UNCHANGED <<srvVars, libVars>>
  /\ UNCHANGED <<shape, downloadedSymbols, dlPhase, dlDepth, dlTasks,
                 newIdentifiers, dlCalls, dlResult, dlHist, state,
                 cacheFiles>>

vars == <<state, cacheFiles, dlVars, srvVars, libVars>>

Slots == 1..MaxInFlight

\* No reply sent so far.
NoReply == [op |-> None, reply |-> None]

\* No technology change so far.
NoSwitch == [symbols |-> 0, expanded |-> 0, indexed |-> FALSE]

\* A slot with no tool call in it.
IdleReq ==
  [op |-> None, pc |-> "idle", seq |-> 0, reply |-> None,
   name |-> <<>>, identifier |-> <<>>, path |-> <<>>, query |-> <<>>,
   technology |-> None, framework |-> None, index |-> 0, todo |-> <<>>]

InitDL ==
  /\ \E technology \in Technologies \cup {None} :
       state = setActiveTechnology(NewServerState, technology)
  /\ cacheFiles = {}
  /\ shape \in Shapes
  /\ now = 0
  /\ downloadedSymbols = {}
  /\ dlPhase = "idle"
  /\ dlDepth = 0
  /\ dlTasks = <<>>
  /\ newIdentifiers = <<>>
  /\ dlCalls = 0
  /\ dlResult = None
  /\ dlAtStart = {}
  /\ dlSeen = [c \in 1..MaxCalls |-> {}]
  /\ dlListed = {}
  /\ dlExhausted = {}
  /\ dlFetched = {}
  /\ prevFirstAt = 0 - rateLimitDelay
  /\ reqs = [s \in Slots |-> IdleReq]
  /\ nCalls = 0
  /\ indexMaps = [m \in 1..MaxRequests |-> {}]
  /\ beforeSwitch = NoSwitch
  /\ lastReply = NoReply
  /\ LibInit

NextDL ==
  \/ DownloadAllSymbols
  \/ FrameworkFetchFails
  \/ FrameworkFetched
  \/ \E i \in 1..Len(dlTasks) : RateLimitElapsed(i)
  \/ \E i \in 1..Len(dlTasks) : BackoffElapsed(i)
  \/ \E i \in 1..Len(dlTasks) : FetchSucceeds(i)
  \/ \E i \in 1..Len(dlTasks) : FetchFails(i)
  \/ LayerSettles
  \/ Tick

SpecDL == InitDL /\ [][NextDL]_vars

\* The event loop runs every due timer and every completed request, and a
\* request ends within its timeout; when downloadAllSymbols is called is up
\* to the caller.
LiveDL ==
  /\ SpecDL
  /\ WF_vars(FrameworkFetchFails \/ FrameworkFetched)
  /\ WF_vars(\E i \in 1..Len(dlTasks) : RateLimitElapsed(i))
  /\ WF_vars(\E i \in 1..Len(dlTasks) : BackoffElapsed(i))
  /\ WF_vars(\E i \in 1..Len(dlTasks) : FetchSucceeds(i) \/ FetchFails(i))
  /\ WF_vars(LayerSettles)
  /\ WF_vars(Tick)

\* ------------------------------------------------------------ tool handlers
\* The arguments the tool calls are made with.
ChooseArgs ==
  {[name |-> <<"u", "i">>, identifier |-> <<>>],
   [name |-> <<" ", "K", "i", "t">>,
    identifier |-> toLowerCase(Catalog["T2"].identifier)],
   [name |-> <<"d", "o">>, identifier |-> <<>>],
   [name |-> <<"u", "i">>, identifier |-> Catalog["X2"].identifier]}
Queries == {<<"a">>}
Paths == {<<"a">>}

\* The files the cache directory may hold when the server starts.
InitialCaches ==
  {{},
   {TechnologiesFile, FrameworkFile(Kit),
    SymbolFile(DocumentationSlash \o Ui \o Leaf("a"))}}

\* A tool call takes the first slot that holds no running handler.
Free(s) ==
  /\ reqs[s].pc = "idle"
  /\ \A other \in 1..(s - 1) : reqs[other].pc # "idle"

\* A tool call arrives: the handler starts with its arguments.
Called(s, op) ==
  [IdleReq EXCEPT !.op = op, !.seq = nCalls + 1, !.pc = "running"]

\* The handler returns or throws with a reply.
Replied(r, reply) == [r EXCEPT !.pc = "replied", !.reply = reply]

\* The slot goes on with the handler at its next await, or the handler has
\* replied: the reply goes out and the slot is free.
Becomes(s, r) ==
  /\ reqs' = [reqs EXCEPT ![s] = IF r.pc = "replied" THEN IdleReq ELSE r]
  /\ lastReply' = IF r.pc = "replied"
                  THEN [op |-> r.op, reply |-> r.reply]
                  ELSE lastReply

\* Handlers that never answer with the guidance message (what C4 rules out).
NoTechnologyIgnored(st) == FALSE

\* no-technology.js: whether a handler answers with the guidance message.
NoTechnology(st) == st.activeTechnology = None

\* choose_technology up to await client.getTechnologies().
ChooseTechnology(s, args) ==
  /\ Free(s)
  /\ nCalls < MaxRequests
  /\ nCalls' = nCalls + 1
  /\ Becomes(s,
       [Called(s, "choose_technology") EXCEPT
          !.pc = "getTechnologies", !.name = args.name,
          !.identifier = args.identifier])
  /\ UNCHANGED <<state, cacheFiles, dlVars, libVars, indexMaps, beforeSwitch>>

\* getTechnologies: nothing cached and the request fails; the handler throws.
GetTechnologiesFails(s) ==
  /\ reqs[s].pc = "getTechnologies"
  /\ TechnologiesFile \notin cacheFiles
  /\ Becomes(s, Replied(reqs[s], "error"))
  /\ UNCHANGED <<state, cacheFiles, dlVars, libVars, nCalls, indexMaps, beforeSwitch>>

\* getTechnologies: the catalog is read from the cache, or fetched and saved.
GetTechnologiesReturns(s) ==
  /\ reqs[s].pc = "getTechnologies"
  /\ cacheFiles' = cacheFiles \cup {TechnologiesFile}
  /\ Becomes(s, [reqs[s] EXCEPT !.pc = "choose"])
  /\ UNCHANGED <<state, dlVars, libVars, nCalls, indexMaps, beforeSwitch>>

\* choose_technology after the catalog arrived (choose-technology.ts:42-110).
ChooseTechnologyResolves(s) ==
  /\ reqs[s].pc = "choose"
  /\ LET chosen == ChooseCandidate(reqs[s].name, reqs[s].identifier)
     IN IF chosen = None
        THEN /\ Becomes(s, Replied(reqs[s], "not_found"))
             /\ UNCHANGED state
        ELSE IF ensureFrameworkThrows(chosen)
        THEN /\ Becomes(s, Replied(reqs[s], "invalid_request"))
             /\ UNCHANGED state
        ELSE /\ state' = clearActiveFrameworkData(setActiveTechnology(state, chosen))
             /\ Becomes(s, Replied(reqs[s], "selected"))
  /\ beforeSwitch' =
       LET chosen == ChooseCandidate(reqs[s].name, reqs[s].identifier)
       IN IF /\ chosen # None
             /\ IdentifierOf(state'.activeTechnology) # IdentifierOf(state.activeTechnology)
          THEN [symbols |-> IF state.localSymbolIndex = Undefined THEN 0
                            ELSE getSymbolCount(The(state.localSymbolIndex)),
                expanded |-> Cardinality(state.expandedIdentifiers),
                indexed |-> state.frameworkIndex # Undefined]
          ELSE beforeSwitch
  /\ UNCHANGED <<cacheFiles, dlVars, libVars, nCalls, indexMaps>>

\* The reply of a search: whether anything matched.
SearchReply(matches) == IF matches = {} THEN "no_results" ELSE "results"

\* search_symbols up to its reply or await client.searchFramework(...).
SearchSymbols(s, query) ==
  /\ Free(s)
  /\ nCalls < MaxRequests
  /\ nCalls' = nCalls + 1
  /\ IF NoTechnology(state)
     THEN /\ Becomes(s,
               Replied(Called(s, "search_symbols"), "guidance"))
          /\ UNCHANGED state
     ELSE LET got == getLocalSymbolIndex(state)
              techLocalIndex == The(got.localSymbolIndex)
              built == IF getSymbolCount(techLocalIndex) = 0
                       THEN buildIndexFromCache(techLocalIndex, cacheFiles)
                       ELSE techLocalIndex
              symbolResults == search(built, query)
          IN /\ state' = [got EXCEPT !.localSymbolIndex = Some(built)]
             /\ IF symbolResults = {} /\ getSymbolCount(built) < 50
                THEN Becomes(s,
                       [Called(s, "search_symbols") EXCEPT
                          !.pc = "searchFramework", !.query = query,
                          !.technology = state.activeTechnology])
                ELSE Becomes(s,
                       Replied(Called(s, "search_symbols"),
                               SearchReply(symbolResults)))
  /\ UNCHANGED <<cacheFiles, dlVars, libVars, indexMaps, beforeSwitch>>

\* searchFramework: getFramework fails, the handler throws.
SearchFrameworkFails(s) ==
  /\ reqs[s].pc = "searchFramework"
  /\ FrameworkFile(Catalog[reqs[s].technology].title) \notin cacheFiles
  /\ Becomes(s, Replied(reqs[s], "error"))
  /\ UNCHANGED <<state, cacheFiles, dlVars, libVars, nCalls, indexMaps, beforeSwitch>>

\* searchFramework: the references of the framework whose title matches.
SearchFrameworkReturns(s) ==
  /\ reqs[s].pc = "searchFramework"
  /\ LET frameworkName == Catalog[reqs[s].technology].title
         framework == FrameworkData(FrameworkNamed(frameworkName))
         results == {ref \in framework.references :
                       includes(toLowerCase(ref.title), toLowerCase(reqs[s].query))}
     IN /\ cacheFiles' = cacheFiles \cup {FrameworkFile(frameworkName)}
        /\ Becomes(s, Replied(reqs[s], SearchReply(results)))
  /\ UNCHANGED <<state, dlVars, libVars, nCalls, indexMaps, beforeSwitch>>

\* get-documentation.ts:19-24
TargetPath(technology, path) ==
  IF startsWith(path, DocumentationSlash)
  THEN path
  ELSE DocumentationSlash \o lastSegment(Catalog[technology].identifier)
         \o <<"/">> \o path

\* get_documentation up to its first request.
GetDocumentation(s, path) ==
  /\ Free(s)
  /\ nCalls < MaxRequests
  /\ nCalls' = nCalls + 1
  /\ IF NoTechnology(state)
     THEN Becomes(s,
            Replied(Called(s, "get_documentation"), "guidance"))
     ELSE IF state.activeFrameworkData # None
     THEN Becomes(s,
            [Called(s, "get_documentation") EXCEPT
               !.pc = "getSymbol",
               !.technology = state.activeTechnology,
               !.framework = state.activeFrameworkData,
               !.path = TargetPath(state.activeTechnology, path)])
     ELSE Becomes(s,
            [Called(s, "get_documentation") EXCEPT
               !.pc = "getFramework",
               !.technology = state.activeTechnology,
               !.path = path])
  /\ UNCHANGED <<state, cacheFiles, dlVars, libVars, indexMaps, beforeSwitch>>

\* framework-loader.ts:59-75 once the framework data is in state: the index
\* in state, or a new Map made from the references of the framework data.
\* Maps are named by the number of the tool call that made them.
ensureFrameworkIndex(st, maps, seq) ==
  IF st.frameworkIndex # Undefined
  THEN [st |-> st, maps |-> maps, index |-> The(st.frameworkIndex)]
  ELSE [st |-> setFrameworkIndex(st, seq),
        maps |-> [maps EXCEPT ![seq] =
                    {ref.id : ref \in FrameworkData(st.activeFrameworkData).references}],
        index |-> seq]

\* The loop of expandSymbolReferences at its next identifier: expanded
\* identifiers are passed over, the first other one is requested.
RECURSIVE ExpandNext(_, _, _)
ExpandNext(st, maps, r) ==
  IF r.todo = <<>>
  THEN Replied(r, SearchReply({k \in maps[r.index] :
                  includes(toLowerCase(EntryTitle(k)), toLowerCase(r.query))}))
  ELSE IF hasExpandedIdentifier(st, Head(r.todo))
  THEN ExpandNext(st, maps, [r EXCEPT !.todo = Tail(@)])
  ELSE [r EXCEPT !.pc = "getSymbol", !.path = symbolPathOf(Head(r.todo))]

\* performHierarchicalSearch once loadActiveFrameworkData returned: the
\* references of the framework are matched, and with no match the topic
\* identifiers are expanded.
AfterFramework(st, maps, r) ==
  LET framework == FrameworkData(r.framework)
      direct == {ref \in framework.references :
                   includes(toLowerCase(ref.title), toLowerCase(r.query))}
      ensured == ensureFrameworkIndex(st, maps, r.seq)
  IN IF direct # {}
     THEN [st |-> st, maps |-> maps, r |-> Replied(r, "results")]
     ELSE [st |-> ensured.st, maps |-> ensured.maps,
           r |-> ExpandNext(ensured.st, ensured.maps,
                   [r EXCEPT !.index = ensured.index,
                             !.todo = framework.topicIdentifiers])]

\* The hierarchical search strategy up to its first request.
HierarchicalSearch(s, query) ==
  /\ Free(s)
  /\ nCalls < MaxRequests
  /\ nCalls' = nCalls + 1
  /\ LET r == [Called(s, "hierarchical_search") EXCEPT
                 !.query = query, !.technology = state.activeTechnology,
                 !.framework = state.activeFrameworkData]
         after == AfterFramework(state, indexMaps, r)
     IN IF NoTechnology(state)
        THEN /\ Becomes(s, Replied(r, "no_results"))
             /\ UNCHANGED <<state, indexMaps>>
        ELSE IF state.activeFrameworkData # None
        THEN /\ Becomes(s, after.r)
             /\ state' = after.st
             /\ indexMaps' = after.maps
        ELSE /\ Becomes(s, [r EXCEPT !.pc = "getFramework"])
             /\ UNCHANGED <<state, indexMaps>>
  /\ UNCHANGED <<cacheFiles, dlVars, libVars, beforeSwitch>>

\* The framework name loadActiveFrameworkData asks for.
FrameworkNameOf(technology) == lastSegment(Catalog[technology].identifier)

\* loadActiveFrameworkData: getFramework fails. get_documentation throws;
\* the hierarchical search catches the error and returns no results.
GetFrameworkFails(s) ==
  /\ reqs[s].pc = "getFramework"
  /\ FrameworkFile(FrameworkNameOf(reqs[s].technology)) \notin cacheFiles
  /\ Becomes(s,
       Replied(reqs[s], IF reqs[s].op = "get_documentation"
                        THEN "error" ELSE "no_results"))
  /\ UNCHANGED <<state, cacheFiles, dlVars, libVars, nCalls, indexMaps, beforeSwitch>>

\* loadActiveFrameworkData: getFramework returns, the data is put in state
\* and the framework index cleared (framework-loader.ts:32-35); the caller
\* goes on.
GetFrameworkReturns(s) ==
  /\ reqs[s].pc = "getFramework"
  /\ LET r == reqs[s]
         frameworkName == FrameworkNameOf(r.technology)
         data == FrameworkNamed(frameworkName)
         loaded == clearFrameworkIndex(setActiveFrameworkData(state, data))
         after == AfterFramework(loaded, indexMaps, [r EXCEPT !.framework = data])
     IN /\ cacheFiles' = cacheFiles \cup {FrameworkFile(frameworkName)}
        /\ IF r.op = "get_documentation"
           THEN /\ state' = loaded
                /\ Becomes(s,
                     [r EXCEPT !.pc = "getSymbol", !.framework = data,
                               !.path = TargetPath(r.technology, r.path)])
                /\ UNCHANGED indexMaps
           ELSE /\ state' = after.st
                /\ Becomes(s, after.r)
                /\ indexMaps' = after.maps
  /\ UNCHANGED <<dlVars, libVars, nCalls, beforeSwitch>>

\* getSymbol fails: get_documentation throws; expandSymbolReferences logs a
\* warning and goes on with the next identifier.
GetSymbolFails(s) ==
  /\ reqs[s].pc = "getSymbol"
  /\ SymbolFile(reqs[s].path) \notin cacheFiles
  /\ Becomes(s,
       IF reqs[s].op = "get_documentation"
       THEN Replied(reqs[s], "error")
       ELSE ExpandNext(state, indexMaps, [reqs[s] EXCEPT !.todo = Tail(@)]))
  /\ UNCHANGED <<state, cacheFiles, dlVars, libVars, nCalls, indexMaps, beforeSwitch>>

\* getSymbol returns. get_documentation replies with the document;
\* expandSymbolReferences adds the references to the Map it holds and marks
\* the identifier expanded in state (framework-loader.ts:103-105).
GetSymbolReturns(s) ==
  /\ reqs[s].pc = "getSymbol"
  /\ reqs[s].path \in SymbolPaths
  /\ cacheFiles' = cacheFiles \cup {SymbolFile(reqs[s].path)}
  /\ IF reqs[s].op = "get_documentation"
     THEN /\ Becomes(s, Replied(reqs[s], "document"))
          /\ UNCHANGED <<state, indexMaps>>
     ELSE LET r == reqs[s]
              data == SymbolData(r.path)
              maps == [indexMaps EXCEPT ![r.index] =
                         @ \cup {ref.id : ref \in data.references}]
              marked == markIdentifierExpanded(state, Head(r.todo))
          IN /\ indexMaps' = maps
             /\ state' = marked
             /\ Becomes(s,
                  ExpandNext(marked, maps, [r EXCEPT !.todo = Tail(@)]))
  /\ UNCHANGED <<dlVars, libVars, nCalls, beforeSwitch>>

Init ==
  /\ state = NewServerState
  /\ cacheFiles \in InitialCaches
  /\ shape = "empty"
  /\ now = 0
  /\ downloadedSymbols = {}
  /\ dlPhase = "idle"
  /\ dlDepth = 0
  /\ dlTasks = <<>>
  /\ newIdentifiers = <<>>
  /\ dlCalls = 0
  /\ dlResult = None
  /\ dlAtStart = {}
  /\ dlSeen = [c \in 1..MaxCalls |-> {}]
  /\ dlListed = {}
  /\ dlExhausted = {}
  /\ dlFetched = {}
  /\ prevFirstAt = 0 - rateLimitDelay
  /\ reqs = [s \in Slots |-> IdleReq]
  /\ nCalls = 0
  /\ indexMaps = [m \in 1..MaxRequests |-> {}]
  /\ beforeSwitch = NoSwitch
  /\ lastReply = NoReply
  /\ LibInit

Next ==
  \/ \E s \in Slots, args \in ChooseArgs : ChooseTechnology(s, args)
  \/ \E s \in Slots : GetTechnologiesFails(s)
  \/ \E s \in Slots : GetTechnologiesReturns(s)
  \/ \E s \in Slots : ChooseTechnologyResolves(s)
  \/ \E s \in Slots, query \in Queries : SearchSymbols(s, query)
  \/ \E s \in Slots : SearchFrameworkFails(s)
  \/ \E s \in Slots : SearchFrameworkReturns(s)
  \/ \E s \in Slots, path \in Paths : GetDocumentation(s, path)
  \/ \E s \in Slots, query \in Queries : HierarchicalSearch(s, query)
  \/ \E s \in Slots : GetFrameworkFails(s)
  \/ \E s \in Slots : GetFrameworkReturns(s)
  \/ \E s \in Slots : GetSymbolFails(s)
  \/ \E s \in Slots : GetSymbolReturns(s)

Spec == Init /\ [][Next]_vars

\* ---------------------------------------------------------- state claims
\* A step that changes the active technology to a different identifier.
Switched ==
  IdentifierOf(state'.activeTechnology) # IdentifierOf(state.activeTechnology)

\* The symbol count of the local index a handler would get from state.
LocalSymbolCount(st) ==
  getSymbolCount(The(getLocalSymbolIndex(st).localSymbolIndex))

\* C1: right after the active technology changes to a different identifier
\* the local symbol index obtained from state has no symbols, and an index
\* in state has symbols only once buildIndexFromCache has run on it.
C1_IndexEmptyAfterSwitch ==
  /\ [][Switched => LocalSymbolCount(state') = 0]_vars
  /\ [](state.localSymbolIndex # Undefined =>
          (getSymbolCount(The(state.localSymbolIndex)) > 0 =>
             The(state.localSymbolIndex).indexBuilt))

C1_Witness ==
  /\ beforeSwitch.symbols > 0
  /\ state.localSymbolIndex = Undefined

\* C2: the step that changes the active technology to a different
\* identifier leaves no identifier expanded and no framework index in state,
\* and leaves the files of the disk cache as they were.
C2_SwitchClearsExpansion ==
  [][Switched =>
       /\ \A identifier \in {RefA.id, RefB.id, RefC.id} :
            ~hasExpandedIdentifier(state', identifier)
       /\ state'.expandedIdentifiers = {}
       /\ state'.frameworkIndex = Undefined
       /\ cacheFiles' = cacheFiles]_vars

C2_Witness ==
  /\ beforeSwitch.expanded > 0
  /\ beforeSwitch.indexed
  /\ state.expandedIdentifiers = {}
  /\ state.frameworkIndex = Undefined
  /\ \E path \in SymbolPaths : SymbolFile(path) \in cacheFiles

\* Whether the catalog entry is a framework: a symbol collection.
IsFrameworkEntry(t) ==
  Catalog[t].kind = "symbol" /\ Catalog[t].role = "collection"

\* C3: the active technology is always a symbol collection, and a
\* choose_technology call that resolves to another kind of entry ends with
\* an error and leaves the whole of state as it was.
C3_OnlyFrameworksActivated ==
  /\ [](state.activeTechnology # None => IsFrameworkEntry(state.activeTechnology))
  /\ [][\A s \in Slots :
          (/\ ChooseTechnologyResolves(s)
           /\ ChooseCandidate(reqs[s].name, reqs[s].identifier) # None
           /\ ~IsFrameworkEntry(ChooseCandidate(reqs[s].name, reqs[s].identifier)))
          => /\ lastReply' = [op |-> "choose_technology", reply |-> "invalid_request"]
             /\ state' = state]_vars

C3_Witness ==
  /\ state.activeTechnology # None
  /\ state.localSymbolIndex # Undefined
  /\ lastReply = [op |-> "choose_technology", reply |-> "invalid_request"]

\* C4: with no active technology a call of search_symbols or of
\* get_documentation is answered at once with the guidance message, with no
\* request left in flight, and state and the cache stay as they were.
C4_GuidanceWithoutTechnology ==
  [][\A s \in Slots :
       (/\ state.activeTechnology = None
        /\ \/ \E query \in Queries : SearchSymbols(s, query)
           \/ \E path \in Paths : GetDocumentation(s, path))
       => /\ reqs'[s] = IdleReq
          /\ lastReply'.op \in {"search_symbols", "get_documentation"}
          /\ lastReply'.reply = "guidance"
          /\ state' = state
          /\ cacheFiles' = cacheFiles]_vars

C4_Witness ==
  /\ state = NewServerState
  /\ nCalls > 1
  /\ lastReply.op \in {"search_symbols", "get_documentation"}
  /\ lastReply.reply = "guidance"

\* ------------------------------------------------------ downloader claims
Abs(x) == IF x < 0 THEN 0 - x ELSE x

TaskIndexes == 1..Len(dlTasks)

\* C5 as stated: a second call that discovers no identifier the first call
\* did not see starts no symbol fetch at all.
C5_SecondCallFetchesNothing ==
  (/\ dlCalls = 2 /\ dlPhase = "idle" /\ dlResult = "ok"
   /\ dlSeen[2] \subseteq dlSeen[1]) => dlFetched = {}

\* C5 as amended: a later call starts no fetch for an identifier that was
\* marked downloaded when the call began, so it starts none at all when every
\* identifier it lists was downloaded before; identifiers whose attempts all
\* failed earlier are not marked and are fetched again.
C5_SecondCallSkipsDownloaded ==
  dlCalls >= 2 =>
    /\ dlFetched \cap dlAtStart = {}
    /\ dlListed \subseteq dlAtStart => dlFetched = {}

C5_Witness ==
  /\ dlCalls = 2 /\ dlPhase = "idle" /\ dlResult = "ok"
  /\ dlListed # {} /\ dlListed \subseteq dlAtStart
  /\ dlFetched = {}

\* C6: no fetch attempt starts for an identifier that is already marked
\* downloaded.
C6_NoFetchOfDownloaded ==
  \A i \in TaskIndexes : ~dlTasks[i].refetch

\* C7: the recursion never runs at a depth above 3, and every call of
\* downloadAllSymbols completes.
C7_BoundedDepthAndCompletion ==
  /\ [](dlDepth <= 3)
  /\ (dlPhase # "idle") ~> (dlPhase = "idle")

C7_Witness ==
  /\ dlPhase = "layer" /\ dlDepth = 3
  /\ Len(newIdentifiers) > 0
  /\ \A i \in TaskIndexes : Settled(dlTasks[i])

\* C8: at most 3 attempts per identifier and layer; attempt k+1 starts no
\* earlier than 100 * 2^(k-1) ms after attempt k failed; data ends the
\* retries, and the third failure ends them at once with no data.
C8_RetryBackoff ==
  \A i \in TaskIndexes :
    LET task == dlTasks[i] IN
    /\ task.attempt <= 3
    /\ (task.st = "fetching" /\ task.attempt > 1) =>
         task.startedAt >= task.failedAt + 100 * (2 ^ (task.attempt - 2))
    /\ task.st = "backoff" =>
         /\ task.attempt < 3
         /\ task.wakeAt = task.failedAt + 100 * (2 ^ (task.attempt - 1))
    /\ task.data => task.st = "done"
    /\ (task.st = "done" /\ ~task.data) =>
         task.attempt = 3 /\ task.wakeAt = 0

C8_Witness ==
  \E i \in TaskIndexes :
    /\ dlTasks[i].st = "fetching" /\ dlTasks[i].attempt = 3
    /\ dlTasks[i].startedAt = dlTasks[i].failedAt + 200

\* C9: a call ends with an error only when no technology is active or the
\* framework fetch failed; with identifiers whose attempts all failed it
\* still ends normally, after every identifier its layers listed was fetched
\* or skipped as downloaded.
C9_SymbolFailuresDoNotAbort ==
  /\ dlResult # "ok" /\ dlResult # None =>
       dlResult \in {"error_not_selected", "error_framework_fetch"}
  /\ (dlPhase = "idle" /\ dlExhausted # {}) =>
       /\ dlResult = "ok"
       /\ dlListed \subseteq dlFetched \cup downloadedSymbols

C9_Witness ==
  /\ dlPhase = "idle" /\ dlResult = "ok"
  /\ dlExhausted # {}
  /\ (dlFetched \cap downloadedSymbols) \ dlExhausted # {}

\* C10: any two first attempts, of one layer or of different layers, start
\* at least 100 ms apart.
C10_FirstAttemptsSpaced ==
  \A i \in TaskIndexes :
    dlTasks[i].firstAt # NotYet =>
      /\ dlTasks[i].firstAt - prevFirstAt >= 100
      /\ \A j \in TaskIndexes \ {i} :
           dlTasks[j].firstAt # NotYet =>
             Abs(dlTasks[i].firstAt - dlTasks[j].firstAt) >= 100

\* The tasks of the running layer whose fetch is in flight.
Outstanding == {i \in TaskIndexes : dlTasks[i].st = "fetching"}

\* C11: the step that starts the next layer is taken only when every task
\* of the running layer has finished (skipped, fetched, or out of retries),
\* and the fetches in flight never outnumber the identifiers of the running
\* layer.
C11_LayersDoNotOverlap ==
  /\ [][dlDepth' = dlDepth + 1 =>
          \A i \in TaskIndexes : dlTasks[i].st \in {"skip", "done"}]_vars
  /\ [](Cardinality(Outstanding) <= Len(dlTasks))

C11_Witness ==
  /\ dlDepth >= 1
  /\ Len(dlTasks) >= 2
  /\ Cardinality(Outstanding) = Len(dlTasks)


\* ------------------------------------------------------------- FileCache
\* apple-client/cache/file-cache.ts over its cache directory. A directory is
\* the set of its files, each a <<name, text>> pair with a string for a name.

\* The JSON values that are saved and loaded, each with its members in key
\* order: "api" is the catalog as the origin sends it, "legacy" its
\* references alone, "F1", "F2" framework documents and "S1" a symbol
\* document. "list" is an empty array; "string" is no object.
JsonMembers ==
  [api         |-> <<<<"references", "legacy">>, <<"sections", "list">>>>,
   legacy      |-> <<<<"T1", "technology">>, <<"T2", "technology">>>>,
   technology  |-> <<<<"identifier", "string">>, <<"title", "string">>>>,
   emptyObject |-> <<>>,
   emptyRefs   |-> <<<<"references", "emptyObject">>>>,
   F1          |-> <<<<"metadata", "meta">>, <<"references", "refs">>>>,
   F2          |-> <<<<"metadata", "meta">>, <<"references", "refs">>,
                     <<"topicSections", "list">>>>,
   S1          |-> <<<<"metadata", "meta">>, <<"references", "refs">>>>,
   meta        |-> <<<<"role", "string">>>>,
   refs        |-> <<<<"R1", "technology">>>>,
   list        |-> <<>>]

\* typeof value === 'object', for a value that is not null
isObject(value) == value \in DOMAIN JsonMembers

\* Object.keys(value) and Object.values(value)
ObjectKeys(value) ==
  IF isObject(value)
  THEN [i \in 1..Len(JsonMembers[value]) |-> JsonMembers[value][i][1]]
  ELSE <<>>
ObjectValues(value) ==
  IF isObject(value)
  THEN [i \in 1..Len(JsonMembers[value]) |-> JsonMembers[value][i][2]]
  ELSE <<>>

\* key in value
hasKey(key, value) == \E i \in 1..Len(ObjectKeys(value)) : ObjectKeys(value)[i] = key

\* value[key], of a key that is in value
memberOf(value, key) ==
  ObjectValues(value)[CHOOSE i \in 1..Len(ObjectKeys(value)) :
                        ObjectKeys(value)[i] = key]

\* JSON.stringify(data, null, 2): the text of a value is the value between
\* its braces.
JSONstringify(data) == <<"{", data, "}">>

\* A text that was cut short before its closing brace.
Truncated(text) == SubSeq(text, 1, Len(text) - 1)

\* Whether JSON.parse accepts a text, and the value it returns then.
JSONparses(text) == Len(text) = 3 /\ text[1] = "{" /\ text[3] = "}"
JSONparse(text) == text[2]

\* fs.readFile and fs.writeFile on a directory
fileExists(dir, name) == \E file \in dir : file[1] = name
readFile(dir, name) == (CHOOSE file \in dir : file[1] = name)[2]
writeFile(dir, name, text) ==
  {file \in dir : file[1] # name} \cup {<<name, text>>}

\* What a call returns that did not return a value.
NotFound == "undefined"
Raised == "SyntaxError"

\* try { JSON.parse(await fs.readFile(file)) }
\* catch: ENOENT is undefined, any other error is thrown again.
readJson(dir, name) ==
  IF ~ fileExists(dir, name) THEN NotFound
  ELSE IF ~ JSONparses(readFile(dir, name)) THEN Raised
  ELSE JSONparse(readFile(dir, name))

jsonSuffix == <<".json">>
TechnologiesName ==
  <<"t", "e", "c", "h", "n", "o", "l", "o", "g", "i", "e", "s">>

\* join(this.docsDir, 'technologies.json')
technologiesCachePath == TechnologiesName \o jsonSuffix

\* join(this.docsDir, `${safeName}.json`); FileCache.sanitizeFrameworkName
\* replaces /[^\w-]/gi, the characters AppleDevDocsClient's replaces.
getCachePath(frameworkName) == sanitizeFrameworkName(frameworkName) \o jsonSuffix

\* path.replaceAll('/', '__')
RECURSIVE replaceSlashes(_)
replaceSlashes(path) ==
  IF path = <<>> THEN <<>>
  ELSE (IF Head(path) = "/" THEN <<"_", "_">> ELSE <<Head(path)>>)
         \o replaceSlashes(Tail(path))

\* join(this.docsDir, `${safePath}.json`)
symbolCachePath(path) == replaceSlashes(path) \o jsonSuffix

loadFramework(dir, frameworkName) == readJson(dir, getCachePath(frameworkName))
saveFramework(dir, frameworkName, data) ==
  writeFile(dir, getCachePath(frameworkName), JSONstringify(data))

loadSymbol(dir, path) == readJson(dir, symbolCachePath(path))
saveSymbol(dir, path, data) ==
  writeFile(dir, symbolCachePath(path), JSONstringify(data))

\* A loadTechnologies that returns the parsed file as it is (what C12 is
\* corrected for).
loadTechnologiesAsSaved(dir) == readJson(dir, technologiesCachePath)

\* FileCache.loadTechnologies: the references of a wrapper, else a catalog
\* whose first value looks like a technology, else undefined.
loadTechnologies(dir) ==
  LET parsed == readJson(dir, technologiesCachePath)
      refs == memberOf(parsed, "references")
      firstValue == ObjectValues(parsed)[1]
  IN IF parsed \in {NotFound, Raised} THEN parsed
     ELSE IF /\ isObject(parsed)
             /\ hasKey("references", parsed)
             /\ Len(ObjectKeys(refs)) > 0
     THEN refs
     ELSE IF /\ isObject(parsed)
             /\ Len(ObjectKeys(parsed)) > 0
             /\ isObject(firstValue)
             /\ hasKey("identifier", firstValue) \/ hasKey("title", firstValue)
     THEN parsed
     ELSE NotFound

saveTechnologies(dir, technologies) ==
  writeFile(dir, technologiesCachePath, JSONstringify(technologies))

\* The names, paths and documents FileCache is called with.
CacheFrameworkNames == {<<"a", ".", "b">>, <<"a", "_", "b">>, TechnologiesName}
CacheSymbolPaths == {<<"a", "/", "b">>, <<"a", "_", "_", "b">>, <<"a", "_", "b">>}
FrameworkDocuments == {"F1", "F2"}
SymbolDocuments == {"S1"}
CatalogDocuments == {"api", "legacy", "emptyObject", "emptyRefs"}

\* The file a call reads or writes.
CachePathOf(kind, key) ==
  CASE kind = "framework" -> getCachePath(key)
    [] kind = "symbol" -> symbolCachePath(key)
    [] OTHER -> technologiesCachePath

\* A save call: the file is written whole.
Save(kind, key, data, dir) ==
  /\ Len(fcHistory) < MaxSaves
  /\ cacheDir' = dir
  /\ fcHistory' = Append(fcHistory, [kind |-> kind, key |-> key, data |-> data,
                                     file |-> CachePathOf(kind, key)])
  /\ fcDamaged' = fcDamaged \ {CachePathOf(kind, key)}
  /\ fcLast' = [op |-> "save", kind |-> kind, key |-> key, result |-> "ok"]
  /\ UNCHANGED <<state, cacheFiles, dlVars, srvVars, clVars, ixVars, fbVars, tkVars, lruVars, liVars>>

\* A load call: nothing is written.
Load(kind, key, result) ==
  /\ fcLast' = [op |-> "load", kind |-> kind, key |-> key, result |-> result]
  /\ UNCHANGED <<cacheDir, fcHistory, fcDamaged>>
  /\ UNCHANGED <<state, cacheFiles, dlVars, srvVars, clVars, ixVars, fbVars, tkVars, lruVars, liVars>>

SaveFramework(frameworkName, data) ==
  Save("framework", frameworkName, data,
       saveFramework(cacheDir, frameworkName, data))

LoadFramework(frameworkName) ==
  Load("framework", frameworkName, loadFramework(cacheDir, frameworkName))

SaveSymbol(path, data) ==
  Save("symbol", path, data, saveSymbol(cacheDir, path, data))

LoadSymbol(path) == Load("symbol", path, loadSymbol(cacheDir, path))

SaveTechnologies(technologies) ==
  Save("technologies", <<>>, technologies,
       saveTechnologies(cacheDir, technologies))

LoadTechnologies == Load("technologies", <<>>, loadTechnologies(cacheDir))

\* A file of the cache directory is left cut short (a write that did not
\* finish, a damaged disk).
FileDamaged(name) ==
  /\ fileExists(cacheDir, name)
  /\ name \notin fcDamaged
  /\ cacheDir' = writeFile(cacheDir, name, Truncated(readFile(cacheDir, name)))
  /\ fcDamaged' = fcDamaged \cup {name}
  /\ UNCHANGED <<fcHistory, fcLast>>
  /\ UNCHANGED <<state, cacheFiles, dlVars, srvVars, clVars, ixVars, fbVars, tkVars, lruVars, liVars>>

\* The core variables while a library object is exercised on its own.
CoreIdle ==
  /\ state = NewServerState
  /\ cacheFiles = {}
  /\ shape = "empty"
  /\ now = 0
  /\ downloadedSymbols = {}
  /\ dlPhase = "idle"
  /\ dlDepth = 0
  /\ dlTasks = <<>>
  /\ newIdentifiers = <<>>
  /\ dlCalls = 0
  /\ dlResult = None
  /\ dlAtStart = {}
  /\ dlSeen = [c \in 1..MaxCalls |-> {}]
  /\ dlListed = {}
  /\ dlExhausted = {}
  /\ dlFetched = {}
  /\ prevFirstAt = 0 - rateLimitDelay
  /\ reqs = [s \in Slots |-> IdleReq]
  /\ nCalls = 0
  /\ indexMaps = [m \in 1..MaxRequests |-> {}]
  /\ beforeSwitch = NoSwitch
  /\ lastReply = NoReply

InitFileCache == CoreIdle /\ LibInit

NextFileCache ==
  \/ \E frameworkName \in CacheFrameworkNames, data \in FrameworkDocuments :
       SaveFramework(frameworkName, data)
  \/ \E frameworkName \in CacheFrameworkNames : LoadFramework(frameworkName)
  \/ \E path \in CacheSymbolPaths, data \in SymbolDocuments :
       SaveSymbol(path, data)
  \/ \E path \in CacheSymbolPaths : LoadSymbol(path)
  \/ \E technologies \in CatalogDocuments : SaveTechnologies(technologies)
  \/ LoadTechnologies
  \/ \E file \in cacheDir : FileDamaged(file[1])

SpecFileCache == InitFileCache /\ [][NextFileCache]_vars


\* ------------------------------------------------------ FileCache claims
\* The saves made with a kind and key, and the saves that wrote a file, as
\* places in fcHistory.
SavesOf(kind, key) ==
  {i \in 1..Len(fcHistory) : fcHistory[i].kind = kind /\ fcHistory[i].key = key}
SavesTo(name) == {i \in 1..Len(fcHistory) : fcHistory[i].file = name}
Latest(saves) == fcHistory[CHOOSE i \in saves : \A j \in saves : j <= i]

\* The last call was a load whose file nothing but save has written.
LoadedWholeFile ==
  /\ fcLast.op = "load"
  /\ CachePathOf(fcLast.kind, fcLast.key) \notin fcDamaged

CatalogOf(data) ==
  IF hasKey("references", data) /\ ObjectKeys(memberOf(data, "references")) # <<>>
  THEN memberOf(data, "references")
  ELSE IF /\ ObjectKeys(data) # <<>>
          /\ \/ hasKey("identifier", ObjectValues(data)[1])
             \/ hasKey("title", ObjectValues(data)[1])
  THEN data
  ELSE NotFound

CacheKeys ==
  ({"framework"} \X CacheFrameworkNames) \cup ({"symbol"} \X CacheSymbolPaths)
    \cup {<<"technologies", <<>>>>}
LoadOf(dir, k) ==
  CASE k[1] = "framework" -> loadFramework(dir, k[2])
    [] k[1] = "symbol" -> loadSymbol(dir, k[2])
    [] OTHER -> loadTechnologies(dir)

\* C14: a save with one kind and key leaves what load returns for every
\* other kind and key as it was.
C14_SaveLeavesOtherKeys ==
  [][\A k \in CacheKeys :
       (/\ fcLast'.op = "save"
        /\ fcHistory' # fcHistory
        /\ <<fcLast'.kind, fcLast'.key>> # k)
         => LoadOf(cacheDir', k) = LoadOf(cacheDir, k)]_vars


\* ---------------------------------------------------- AppleDevDocsClient
\* apple-client.ts: the docs directory read before the origin is asked, and
\* the responses makeRequest keeps in memory. A file read or written is one
\* step with the part of the call it belongs to; the network request is
\* awaited between two steps.

\* apple-client.ts:81
cacheTimeout == 10 * 60 * 1000
ClockStep == cacheTimeout \div 2

\* `${baseUrl}/documentation/${frameworkName}.json`
frameworkUrl(frameworkName) == DocumentationSlash \o frameworkName \o jsonSuffix
\* `${baseUrl}/${cleanPath}.json`
symbolUrl(cleanPath) == cleanPath \o jsonSuffix
\* `${baseUrl}/documentation/technologies.json`
technologiesUrl == DocumentationSlash \o TechnologiesName \o jsonSuffix

\* The names and paths the client is called with, and the documents the
\* origin has for them.
ClientFrameworkNames == {<<"a", ".", "b">>, <<"a", "_", "b">>}
ClientSymbolPaths == {<<"/", "s">>, <<"s">>}
OriginData(url) ==
  CASE url = frameworkUrl(<<"a", ".", "b">>) -> "F1"
    [] url = frameworkUrl(<<"a", "_", "b">>) -> "F2"
    [] url = symbolUrl(<<"s">>) -> "S1"
    [] url = technologiesUrl -> "api"

\* What a call returns when its request failed.
FetchFailed == "Failed to fetch documentation"

\* join(this.docsDir, `${safeName}.json`)
getDocsPath(frameworkName) == sanitizeFrameworkName(frameworkName) \o jsonSuffix

\* join(this.docsDir, `${safePath}.json`) with path.replace(/[\/]/g, '__')
symbolDocsPath(path) == replaceSlashes(path) \o jsonSuffix

\* path.startsWith('/') ? path.slice(1) : path
cleanPathOf(path) == IF startsWith(path, <<"/">>) THEN Tail(path) ELSE path

loadDocsFramework(dir, frameworkName) == readJson(dir, getDocsPath(frameworkName))
loadSymbolCache(dir, path) == readJson(dir, symbolDocsPath(path))

\* parsed.references || parsed; an object is truthy, an empty one too.
loadCachedTechnologies(dir) ==
  LET parsed == readJson(dir, technologiesCachePath)
  IN IF parsed \in {NotFound, Raised} THEN parsed
     ELSE IF hasKey("references", parsed) THEN memberOf(parsed, "references")
     ELSE parsed

\* An in-memory cache whose entries never run out (what C15 rules out).
memoryGetForever(mem, url, t) ==
  IF \E entry \in mem : entry.url = url
  THEN (CHOOSE entry \in mem : entry.url = url).data
  ELSE NotFound

\* cached && Date.now() - cached.timestamp < this.cacheTimeout
memoryGet(mem, url, t) ==
  IF \E entry \in mem : entry.url = url /\ t - entry.timestamp < cacheTimeout
  THEN (CHOOSE entry \in mem : entry.url = url).data
  ELSE NotFound

\* this.cache.set(url, {data, timestamp: Date.now()})
memorySet(mem, url, data, t) ==
  {entry \in mem : entry.url # url}
    \cup {[url |-> url, data |-> data, timestamp |-> t]}

\* A successful call of getFramework or getSymbol, for the claims about
\* later calls.
Success(op, arg, data) ==
  IF op \in {"getFramework", "getSymbol"} /\ data \notin {Raised, FetchFailed}
  THEN {[op |-> op, arg |-> arg, data |-> data]}
  ELSE {}

\* A call up to its first await of the network: read is what the docs
\* directory gave (NotFound for none and for a call that does not read it);
\* without a file, makeRequest answers from memory or sends the request.
Begin(op, arg, url, name, read) ==
  /\ nClient < MaxClientCalls
  /\ nClient' = nClient + 1
  /\ LET cached == memoryGet(memory, url, clock)
         fetch == read = NotFound
         network == fetch /\ cached = NotFound
         result == IF ~ fetch THEN read ELSE IF network THEN None ELSE cached
     IN /\ clStart' = [op |-> op, arg |-> arg, url |-> url, at |-> clock,
                       damaged |-> name \in clDamaged,
                       fetch |-> fetch, network |-> network, result |-> result]
        /\ pending' = IF network
                      THEN pending \cup {[op |-> op, arg |-> arg, url |-> url,
                                          name |-> name]}
                      ELSE pending
        /\ docsDir' = IF fetch /\ ~ network
                      THEN writeFile(docsDir, name, JSONstringify(cached))
                      ELSE docsDir
        /\ clDamaged' = IF fetch /\ ~ network THEN clDamaged \ {name}
                        ELSE clDamaged
        /\ succeeded' = IF network THEN succeeded
                        ELSE succeeded \cup Success(op, arg, result)
  /\ UNCHANGED <<memory, clock, fetchedAt>>
  /\ UNCHANGED <<state, cacheFiles, dlVars, srvVars, fcVars, ixVars, fbVars, tkVars, lruVars, liVars>>

GetFramework(frameworkName) ==
  Begin("getFramework", frameworkName, frameworkUrl(frameworkName),
        getDocsPath(frameworkName), loadDocsFramework(docsDir, frameworkName))

RefreshFramework(frameworkName) ==
  Begin("refreshFramework", frameworkName, frameworkUrl(frameworkName),
        getDocsPath(frameworkName), NotFound)

GetSymbol(path) ==
  Begin("getSymbol", path, symbolUrl(cleanPathOf(path)),
        symbolDocsPath(cleanPathOf(path)),
        loadSymbolCache(docsDir, cleanPathOf(path)))

GetTechnologies ==
  Begin("getTechnologies", <<>>, technologiesUrl, technologiesCachePath,
        loadCachedTechnologies(docsDir))

\* axios.get resolves: the response is kept in memory and written to the
\* docs directory, and the call returns it.
RequestSucceeds(call) ==
  /\ call \in pending
  /\ pending' = pending \ {call}
  /\ memory' = memorySet(memory, call.url, OriginData(call.url), clock)
  /\ docsDir' = writeFile(docsDir, call.name, JSONstringify(OriginData(call.url)))
  /\ clDamaged' = clDamaged \ {call.name}
  /\ fetchedAt' = fetchedAt \cup {[url |-> call.url, t |-> clock,
                                   data |-> OriginData(call.url)]}
  /\ succeeded' = succeeded
                    \cup Success(call.op, call.arg, OriginData(call.url))
  /\ UNCHANGED <<clock, nClient, clStart>>
  /\ UNCHANGED <<state, cacheFiles, dlVars, srvVars, fcVars, ixVars, fbVars, tkVars, lruVars, liVars>>

\* axios.get rejects or runs into its timeout: the call throws.
RequestFails(call) ==
  /\ call \in pending
  /\ pending' = pending \ {call}
  /\ UNCHANGED <<docsDir, memory, clock, nClient, clStart, fetchedAt, succeeded,
                 clDamaged>>
  /\ UNCHANGED <<state, cacheFiles, dlVars, srvVars, fcVars, ixVars, fbVars, tkVars, lruVars, liVars>>

\* Time passes; a request does not outlast its timeout of 15 s.
ClockTick ==
  /\ pending = {}
  /\ clock < MaxTicks * ClockStep
  /\ clock' = clock + ClockStep
  /\ UNCHANGED <<docsDir, memory, pending, nClient, clStart, fetchedAt,
                 succeeded, clDamaged>>
  /\ UNCHANGED <<state, cacheFiles, dlVars, srvVars, fcVars, ixVars, fbVars, tkVars, lruVars, liVars>>

\* The catalog file of the docs directory is left cut short (a write that
\* did not finish, a damaged disk).
CatalogFileDamaged ==
  /\ fileExists(docsDir, technologiesCachePath)
  /\ technologiesCachePath \notin clDamaged
  /\ docsDir' = writeFile(docsDir, technologiesCachePath,
                          Truncated(readFile(docsDir, technologiesCachePath)))
  /\ clDamaged' = clDamaged \cup {technologiesCachePath}
  /\ UNCHANGED <<memory, clock, pending, nClient, clStart, fetchedAt, succeeded>>
  /\ UNCHANGED <<state, cacheFiles, dlVars, srvVars, fcVars, ixVars, fbVars, tkVars, lruVars, liVars>>

InitClient == CoreIdle /\ LibInit

NextClient ==
  \/ \E frameworkName \in ClientFrameworkNames : GetFramework(frameworkName)
  \/ \E frameworkName \in ClientFrameworkNames : RefreshFramework(frameworkName)
  \/ \E path \in ClientSymbolPaths : GetSymbol(path)
  \/ GetTechnologies
  \/ \E call \in pending : RequestSucceeds(call)
  \/ \E call \in pending : RequestFails(call)
  \/ ClockTick
  \/ CatalogFileDamaged

SpecClient == InitClient /\ [][NextClient]_vars


\* ------------------------------------------------------- client claims
\* C13: a getTechnologies call that finds the catalog file cut short takes
\* it for a miss: the call does not throw, and goes on to makeRequest for
\* the catalog of the origin.
C13_CorruptCatalogIsMiss ==
  (clStart.op = "getTechnologies" /\ clStart.damaged) =>
    (clStart.result # Raised /\ clStart.fetch)

\* A step in which a call reaches makeRequest, and the requests for a URL
\* that had succeeded by then.
FetchStarts == nClient' = nClient + 1 /\ clStart'.fetch
FetchedBefore(url) == {e \in fetchedAt : e.url = url}

\* C15 as stated: for every request for the URL that succeeded at a time t,
\* a later fetch before t + 10 min is answered from memory with the stored
\* response, and one after t + 10 min sends a request.
C15_TenMinutesFromAnyFetch ==
  [][FetchStarts =>
       \A e \in FetchedBefore(clStart'.url) :
         /\ clStart'.at < e.t + cacheTimeout =>
              (~ clStart'.network /\ clStart'.result = e.data)
         /\ clStart'.at > e.t + cacheTimeout => clStart'.network]_vars

\* C15: with t the time the latest successful request for the URL
\* completed, a fetch that starts before t + 10 min is answered from memory
\* with the stored response, and one that starts at t + 10 min or later
\* sends a request.
C15_TenMinutesFromLatestFetch ==
  [][FetchStarts =>
       \A e \in FetchedBefore(clStart'.url) :
         (\A f \in FetchedBefore(clStart'.url) : f.t <= e.t) =>
           /\ clStart'.at < e.t + cacheTimeout =>
                (~ clStart'.network /\ clStart'.result = e.data)
           /\ clStart'.at >= e.t + cacheTimeout => clStart'.network]_vars

C15_Witness ==
  /\ clStart.fetch
  /\ clStart.network
  /\ pending # {}
  /\ FetchedBefore(clStart.url) # {}
  /\ \A e \in FetchedBefore(clStart.url) : clStart.at >= e.t + cacheTimeout

\* C16: a getFramework or getSymbol call whose argument an earlier such
\* call succeeded with sends no request and returns the document the
\* earlier call returned.
C16_CachedDocumentStays ==
  [][(nClient' = nClient + 1 /\ clStart'.op \in {"getFramework", "getSymbol"}) =>
       \A e \in succeeded :
         (e.op = clStart'.op /\ e.arg = clStart'.arg) =>
           (~ clStart'.network /\ clStart'.result = e.data)]_vars


\* ------------------------------------------------- LocalSymbolIndex.search
\* local-symbol-index.ts: tokenize, createTokens and search, over the
\* entries of the index in the order the Map holds them.

isUpperCase(c) == LowerChar(c) # c

\* /[\s/._-]/
isDelimiter(c) == c \in {" ", "/", ".", "_", "-"}

\* text.split(/[\s/._-]+/).filter(Boolean), with piece the characters read
\* since the last delimiter
RECURSIVE splitOnDelimiters(_, _)
splitOnDelimiters(text, piece) ==
  IF text = <<>> THEN (IF piece = <<>> THEN <<>> ELSE <<piece>>)
  ELSE IF isDelimiter(Head(text))
  THEN (IF piece = <<>> THEN <<>> ELSE <<piece>>)
         \o splitOnDelimiters(Tail(text), <<>>)
  ELSE splitOnDelimiters(Tail(text), Append(piece, Head(text)))

\* token.split(/(?=[A-Z])/).filter(Boolean)
RECURSIVE splitBeforeUpperCase(_, _)
splitBeforeUpperCase(token, part) ==
  IF token = <<>> THEN (IF part = <<>> THEN <<>> ELSE <<part>>)
  ELSE IF isUpperCase(Head(token)) /\ part # <<>>
  THEN <<part>> \o splitBeforeUpperCase(Tail(token), <<Head(token)>>)
  ELSE splitBeforeUpperCase(Tail(token), Append(part, Head(token)))

\* A piece that is not split at its capital letters.
tokensOfWholePiece(token) == {toLowerCase(token), token}

\* The tokens one piece of the text adds.
tokensOfPiece(token) ==
  LET camelParts == splitBeforeUpperCase(token, <<>>)
  IN {toLowerCase(token), token}
       \cup (IF Len(camelParts) > 1
             THEN {toLowerCase(camelParts[i]) : i \in 1..Len(camelParts)}
                    \cup {camelParts[i] : i \in 1..Len(camelParts)}
                    \cup {toLowerCase(token)}
             ELSE {})

\* LocalSymbolIndex.tokenize: the Set of tokens of a text
tokenize(text) ==
  LET basicTokens == splitOnDelimiters(text, <<>>)
  IN UNION {tokensOfPiece(basicTokens[i]) : i \in 1..Len(basicTokens)}

\* LocalSymbolIndex.createTokens
createTokens(title, abstract, path, platforms) ==
  tokenize(title) \cup tokenize(abstract) \cup tokenize(path)
    \cup UNION {tokenize(platforms[i]) : i \in 1..Len(platforms)}

\* The entry processSymbolData makes of a document.
IndexEntry(title, path, abstract, kind, platforms) ==
  [title |-> title, path |-> path, abstract |-> abstract,
   kind |-> kind, platforms |-> platforms,
   tokens |-> createTokens(title, abstract, path, platforms)]

\* metadata.symbolKind and the names of metadata.platforms of the documents.
Struct == <<"s", "t", "r", "u", "c", "t">>
Class == <<"c", "l", "a", "s", "s">>
iOS == <<"i", "O", "S">>
macOS == <<"m", "a", "c", "O", "S">>

\* The documents that are indexed, by id.
IndexEntries ==
  [GridItem |-> IndexEntry(<<"G", "r", "i", "d", "I", "t", "e", "m">>,
                           <<"/", "u", "i", "/", "g", "r", "i", "d", "i", "t",
                             "e", "m">>,
                           <<"a", "n", " ", "i", "t", "e", "m">>,
                           Struct, <<iOS>>),
   LazyGrid |-> IndexEntry(<<"L", "a", "z", "y", "G", "r", "i", "d">>,
                           <<"/", "u", "i", "/", "l", "a", "z", "y", "g", "r",
                             "i", "d">>,
                           <<"a", " ", "g", "r", "i", "d">>,
                           Struct, <<iOS>>),
   Button   |-> IndexEntry(<<"B", "u", "t", "t", "o", "n">>,
                           <<"/", "u", "i", "/", "b", "u", "t", "t", "o", "n">>,
                           <<"t", "a", "p">>,
                           Class, <<macOS>>)]

\* The queries and result limits search is called with; 20 is the default.
SearchQueries ==
  {<<"G", "r", "i", "d", "*">>, <<"?", "u", "t", "t", "o", "n">>,
   <<"g", "r", "i", "d">>, <<"G", "r", "i", "d">>,
   <<"g", "r", "i", "d", " ", "i", "t", "e", "m">>,
   <<"G", "r", "i", "d", "I", "t", "e", "m">>}
SearchLimits == {1, 20}

\* query.includes('*') || query.includes('?')
hasWildcards(query) == includes(query, <<"*">>) \/ includes(query, <<"?">>)

\* query.replaceAll('*', '.*').replaceAll('?', '.').toLowerCase()
RECURSIVE wildcardPattern(_)
wildcardPattern(query) ==
  IF query = <<>> THEN <<>>
  ELSE (CASE Head(query) = "*" -> <<".", "*">>
          [] Head(query) = "?" -> <<".">>
          [] OTHER -> <<LowerChar(Head(query))>>)
         \o wildcardPattern(Tail(query))

\* new RegExp(`^${pattern}$`).test(text), for a pattern of characters, '.'
\* and '*' after a character
RECURSIVE regexTest(_, _)
regexTest(pattern, text) ==
  IF pattern = <<>> THEN text = <<>>
  ELSE IF Len(pattern) >= 2 /\ pattern[2] = "*"
  THEN \/ regexTest(SubSeq(pattern, 3, Len(pattern)), text)
       \/ /\ text # <<>>
          /\ pattern[1] \in {".", Head(text)}
          /\ regexTest(pattern, Tail(text))
  ELSE /\ text # <<>>
       /\ pattern[1] \in {".", Head(text)}
       /\ regexTest(Tail(pattern), Tail(text))

\* A wildcard match that looks at the title alone (what C17 is corrected
\* for).
wildcardScoreOfTitle(entry, query) ==
  IF regexTest(wildcardPattern(query), toLowerCase(entry.title)) THEN 100 ELSE 0

\* search, lines 290-303: the score of an entry for a wildcard query
wildcardScore(entry, query) ==
  IF \/ regexTest(wildcardPattern(query), toLowerCase(entry.title))
     \/ regexTest(wildcardPattern(query), toLowerCase(entry.path))
     \/ \E token \in entry.tokens : regexTest(wildcardPattern(query), token)
  THEN 100
  ELSE 0

\* The score the query tokens in a set give an entry.
scoreOfTokens(entry, queryTokens) ==
  50 * Cardinality({queryToken \in queryTokens :
                      includes(toLowerCase(entry.title), toLowerCase(queryToken))})
    + 30 * Cardinality({queryToken \in queryTokens : queryToken \in entry.tokens})
    + 10 * Cardinality({queryToken \in queryTokens :
                          includes(toLowerCase(entry.abstract),
                                   toLowerCase(queryToken))})

\* query.split(/\s+/).filter(Boolean), with piece the characters read since
\* the last blank
RECURSIVE splitOnBlanks(_, _)
splitOnBlanks(text, piece) ==
  IF text = <<>> THEN (IF piece = <<>> THEN <<>> ELSE <<piece>>)
  ELSE IF Head(text) = " "
  THEN (IF piece = <<>> THEN <<>> ELSE <<piece>>)
         \o splitOnBlanks(Tail(text), <<>>)
  ELSE splitOnBlanks(Tail(text), Append(piece, Head(text)))

\* The terms of a query: its pieces between blanks, as they are written.
termsOf(query) ==
  {splitOnBlanks(query, <<>>)[i] : i \in 1..Len(splitOnBlanks(query, <<>>))}

\* A score over the terms of the query (what C19 is corrected for).
tokenScoreOfTerms(entry, query) == scoreOfTokens(entry, termsOf(query))

\* search, lines 305-318: the score of an entry for the tokens of the query
tokenScore(entry, query) == scoreOfTokens(entry, tokenize(query))

scoreOf(entry, query) ==
  IF hasWildcards(query) THEN wildcardScore(entry, query)
  ELSE tokenScore(entry, query)

\* results.sort((a, b) => b.score - a.score): the sort is stable, so of the
\* results with the highest score the one pushed first comes first.
RECURSIVE sortByScore(_)
sortByScore(results) ==
  IF results = <<>> THEN <<>>
  ELSE LET first == CHOOSE i \in 1..Len(results) :
                      /\ \A j \in 1..Len(results) :
                           results[j].score <= results[i].score
                      /\ \A j \in 1..(i - 1) :
                           results[j].score < results[i].score
       IN <<results[first]>>
            \o sortByScore(SubSeq(results, 1, first - 1)
                             \o SubSeq(results, first + 1, Len(results)))

\* The entries with a score above 0, in the order of the Map.
RECURSIVE scoredResults(_, _)
scoredResults(ids, query) ==
  IF ids = <<>> THEN <<>>
  ELSE (IF scoreOf(IndexEntries[Head(ids)], query) > 0
        THEN <<[id |-> Head(ids),
                score |-> scoreOf(IndexEntries[Head(ids)], query)]>>
        ELSE <<>>)
         \o scoredResults(Tail(ids), query)

\* LocalSymbolIndex.search: the ids of the entries returned
searchEntries(ids, query, maxResults) ==
  LET sorted == sortByScore(scoredResults(ids, query))
  IN [i \in 1..(IF maxResults < Len(sorted) THEN maxResults ELSE Len(sorted))
        |-> sorted[i].id]

\* this.symbols.set(path || title, entry), of an id the Map does not hold
IndexSet(id) ==
  /\ \A i \in 1..Len(ixSymbols) : ixSymbols[i] # id
  /\ ixSymbols' = Append(ixSymbols, id)
  /\ UNCHANGED ixFound
  /\ UNCHANGED <<state, cacheFiles, dlVars, srvVars, fcVars, clVars, fbVars, tkVars, lruVars, liVars>>

\* search(query, maxResults)
Search(query, maxResults) ==
  /\ ixFound' = [query |-> query, maxResults |-> maxResults,
                 ids |-> ixSymbols,
                 scores |-> [i \in 1..Len(ixSymbols) |->
                               scoreOf(IndexEntries[ixSymbols[i]], query)],
                 results |-> searchEntries(ixSymbols, query, maxResults)]
  /\ UNCHANGED ixSymbols
  /\ UNCHANGED <<state, cacheFiles, dlVars, srvVars, fcVars, clVars, fbVars, tkVars, lruVars, liVars>>

InitSearch == CoreIdle /\ LibInit

NextSearch ==
  \/ \E id \in DOMAIN IndexEntries : IndexSet(id)
  \/ \E query \in SearchQueries, maxResults \in SearchLimits :
       Search(query, maxResults)

SpecSearch == InitSearch /\ [][NextSearch]_vars


\* --------------------------------------------------------- search claims
\* Whether a text as a whole matches a wildcard query: '*' stands for any
\* string, '?' for any one character, and any other character for itself in
\* lower case.
RECURSIVE WildcardMatches(_, _)
WildcardMatches(query, text) ==
  IF query = <<>> THEN text = <<>>
  ELSE IF Head(query) = "*"
  THEN \E k \in 0..Len(text) :
         WildcardMatches(Tail(query), SubSeq(text, k + 1, Len(text)))
  ELSE /\ text # <<>>
       /\ Head(query) = "?" \/ LowerChar(Head(query)) = Head(text)
       /\ WildcardMatches(Tail(query), Tail(text))

\* The ids the last search looked at and the ids it returned.
SearchedIds == {ixFound.ids[i] : i \in 1..Len(ixFound.ids)}
FoundIds == {ixFound.results[i] : i \in 1..Len(ixFound.results)}

TitleMatches(id) ==
  WildcardMatches(ixFound.query, toLowerCase(IndexEntries[id].title))

\* C17 as stated: a wildcard search returns the entries whose title as a
\* whole matches the query, and no other entry.
C17_WildcardMatchesTitle ==
  hasWildcards(ixFound.query) =>
    /\ \A id \in FoundIds : TitleMatches(id)
    /\ ixFound.maxResults >= Len(ixFound.ids) =>
         \A id \in SearchedIds : TitleMatches(id) => id \in FoundIds

EntryMatches(id) ==
  \/ TitleMatches(id)
  \/ WildcardMatches(ixFound.query, toLowerCase(IndexEntries[id].path))
  \/ \E token \in IndexEntries[id].tokens : WildcardMatches(ixFound.query, token)

\* C17: a wildcard search returns the entries of which the lower-cased
\* title, the lower-cased path or one of the tokens matches the lower-cased
\* query as a whole, and no other entry.
C17_WildcardMatchesTitlePathOrToken ==
  hasWildcards(ixFound.query) =>
    /\ \A id \in FoundIds : EntryMatches(id)
    /\ ixFound.maxResults >= Len(ixFound.ids) =>
         \A id \in SearchedIds : EntryMatches(id) => id \in FoundIds

C17_Witness ==
  /\ ixFound.query = <<"G", "r", "i", "d", "*">>
  /\ SearchedIds = {"GridItem", "LazyGrid", "Button"}
  /\ FoundIds = {"GridItem", "LazyGrid"}
  /\ ~ TitleMatches("LazyGrid")

\* The score the last search gave an entry it looked at.
ScoreOfId(id) ==
  ixFound.scores[CHOOSE i \in 1..Len(ixFound.ids) : ixFound.ids[i] = id]

Alphabet ==
  <<"a", "b", "c", "d", "e", "f", "g", "h", "i", "j", "k", "l", "m", "n", "o",
    "p", "q", "r", "s", "t", "u", "v", "w", "x", "y", "z">>
RECURSIVE StringLess(_, _)
StringLess(a, b) ==
  IF b = <<>> THEN FALSE
  ELSE IF a = <<>> THEN TRUE
  ELSE IF Head(a) = Head(b) THEN StringLess(Tail(a), Tail(b))
  ELSE (CHOOSE i \in 1..Len(Alphabet) : Alphabet[i] = Head(a))
         < (CHOOSE i \in 1..Len(Alphabet) : Alphabet[i] = Head(b))

\* An entry that comes before another in the order C18 states: the higher
\* score first, and of equal scores the lower title, read in lower case.
RankedBefore(a, b) ==
  \/ ScoreOfId(a) > ScoreOfId(b)
  \/ /\ ScoreOfId(a) = ScoreOfId(b)
     /\ StringLess(toLowerCase(IndexEntries[a].title),
                   toLowerCase(IndexEntries[b].title))

\* C18: a search returns entries with a score above 0 only, in the order of
\* RankedBefore, and leaves out an entry with a score above 0 only when
\* maxResults entries that come before it are returned; the result is the
\* same for every order of insertion.
C18_RankedByScoreThenTitle ==
  /\ \A id \in FoundIds : ScoreOfId(id) > 0
  /\ \A i, j \in 1..Len(ixFound.results) :
       i < j => RankedBefore(ixFound.results[i], ixFound.results[j])
  /\ \A id \in SearchedIds \ FoundIds :
       ScoreOfId(id) > 0 =>
         /\ Len(ixFound.results) = ixFound.maxResults
         /\ \A other \in FoundIds : RankedBefore(other, id)

\* 50 for each of the tokens the title contains, 30 for each that is a token
\* of the entry and 10 for each the abstract contains, title and abstract read
\* without regard to case.
RECURSIVE Points(_, _)
Points(entry, tokens) ==
  IF tokens = {} THEN 0
  ELSE LET t == CHOOSE x \in tokens : TRUE
       IN (IF includes(toLowerCase(entry.title), toLowerCase(t)) THEN 50 ELSE 0)
            + (IF t \in entry.tokens THEN 30 ELSE 0)
            + (IF includes(toLowerCase(entry.abstract), toLowerCase(t))
               THEN 10 ELSE 0)
            + Points(entry, tokens \ {t})

\* C19 as stated: without a wildcard, the score of an entry is the sum of
\* the points of the terms of the query, its pieces between blanks.
C19_ScoreOfTerms ==
  ~ hasWildcards(ixFound.query) =>
    \A id \in SearchedIds :
      ScoreOfId(id) = Points(IndexEntries[id], termsOf(ixFound.query))

\* C19: without a wildcard, the score of an entry is the sum of the points
\* of the tokens tokenize makes of the query: each piece between blanks,
\* '/', '.', '_' and '-' in lower case and as written, and for a piece with
\* an inner capital its parts in lower case and as written.
C19_ScoreOfQueryTokens ==
  ~ hasWildcards(ixFound.query) =>
    \A id \in SearchedIds :
      ScoreOfId(id) = Points(IndexEntries[id], tokenize(ixFound.query))

C19_Witness ==
  /\ ixFound.query = <<"G", "r", "i", "d">>
  /\ "GridItem" \in SearchedIds
  /\ ScoreOfId("GridItem") = 160
  /\ Points(IndexEntries["GridItem"], termsOf(ixFound.query)) = 80

\* ---------------------------------------------------------------------
\* The search strategies of one search_symbols call: the search of the
\* symbol index, and behind it the chain of performFallbackSearches.
\* ---------------------------------------------------------------------

\* framework.references of the active technology, in Object.entries order,
\* and the references that only the documents of its topic identifiers hold.
FrameworkReferences == <<"GridItem", "Button">>
ExpandedReferences == <<"LazyGrid">>

\* The queries of a search and its result limits; 20 is the default.
FallbackQueries ==
  {<<"b", "u", "t", "t", "o", "n">>, <<"B", "u", "t", "t">>, <<"u", "i">>,
   <<"t", "a", "p">>, <<"b", "t", "n">>, <<"l", "a", "z", "y">>,
   <<"u", "i", "/", "b">>, <<"x", "y", "z">>}
FallbackLimits == {1, 20}

\* results.slice(0, n), and the loops that stop pushing at maxResults
firstN(results, n) ==
  SubSeq(results, 1, IF n < Len(results) THEN n ELSE Len(results))

\* url.toLowerCase().split('/')
RECURSIVE splitOnSlash(_, _)
splitOnSlash(text, piece) ==
  IF text = <<>> THEN <<piece>>
  ELSE IF Head(text) = "/" THEN <<piece>> \o splitOnSlash(Tail(text), <<>>)
  ELSE splitOnSlash(Tail(text), Append(piece, Head(text)))

\* pathParts.some(part => part.includes(lowerQuery))
pathPartMatches(url, lowerQuery) ==
  LET pathParts == splitOnSlash(toLowerCase(url), <<>>)
  IN \E i \in 1..Len(pathParts) : includes(pathParts[i], lowerQuery)

\* A checkReferenceMatch that tags a match by the abstract alone "direct".
checkReferenceMatchDirect(ref, lowerQuery) ==
  LET titleMatch == includes(toLowerCase(ref.title), lowerQuery)
      pathMatch == pathPartMatches(ref.path, lowerQuery)
      abstractMatch == includes(toLowerCase(ref.abstract), lowerQuery)
  IN [matches |-> titleMatch \/ pathMatch \/ abstractMatch,
      foundVia |-> IF titleMatch \/ ~pathMatch THEN "direct"
                   ELSE "hierarchical"]

\* checkReferenceMatch
checkReferenceMatch(ref, lowerQuery) ==
  LET titleMatch == includes(toLowerCase(ref.title), lowerQuery)
      pathMatch == pathPartMatches(ref.path, lowerQuery)
      abstractMatch == includes(toLowerCase(ref.abstract), lowerQuery)
  IN [matches |-> titleMatch \/ pathMatch \/ abstractMatch,
      foundVia |-> IF titleMatch THEN "direct" ELSE "hierarchical"]

\* performHierarchicalSearch, the loop over framework.references
RECURSIVE referenceMatches(_, _)
referenceMatches(ids, lowerQuery) ==
  IF ids = <<>> THEN <<>>
  ELSE LET check == checkReferenceMatch(IndexEntries[Head(ids)], lowerQuery)
       IN (IF check.matches
           THEN <<[id |-> Head(ids), foundVia |-> check.foundVia]>>
           ELSE <<>>)
            \o referenceMatches(Tail(ids), lowerQuery)

\* processExpandedIndexes, over one expanded index
RECURSIVE expandedMatches(_, _)
expandedMatches(ids, lowerQuery) ==
  IF ids = <<>> THEN <<>>
  ELSE LET entry == IndexEntries[Head(ids)]
       IN (IF \/ includes(toLowerCase(entry.title), lowerQuery)
              \/ pathPartMatches(entry.path, lowerQuery)
           THEN <<[id |-> Head(ids), foundVia |-> "hierarchical"]>>
           ELSE <<>>)
            \o expandedMatches(Tail(ids), lowerQuery)

\* performHierarchicalSearch. loaded: loadActiveFrameworkData returned the
\* framework; expanded: getSymbol returned the document of the topic
\* identifier. A failure is caught and the results so far are returned.
performHierarchicalSearch(query, maxResults, loaded, expanded) ==
  LET lowerQuery == toLowerCase(query)
      results == firstN(referenceMatches(FrameworkReferences, lowerQuery),
                        maxResults)
      expandedIndex == FrameworkReferences
                         \o (IF expanded THEN ExpandedReferences ELSE <<>>)
  IN IF ~loaded THEN <<>>
     ELSE IF results # <<>> THEN results
     ELSE firstN(expandedMatches(expandedIndex, lowerQuery), maxResults)

\* new RegExp([...query].join('.*?'), 'i').test(text), for a query without
\* characters that replaceAll escapes
RECURSIVE fuzzyTest(_, _)
fuzzyTest(query, text) ==
  IF query = <<>> THEN TRUE
  ELSE IF text = <<>> THEN FALSE
  ELSE IF LowerChar(Head(query)) = LowerChar(Head(text))
  THEN fuzzyTest(Tail(query), Tail(text))
  ELSE fuzzyTest(query, Tail(text))

\* performRegexSearch, the loop over framework.references
RECURSIVE regexMatches(_, _)
regexMatches(ids, query) ==
  IF ids = <<>> THEN <<>>
  ELSE LET ref == IndexEntries[Head(ids)]
       IN (IF \/ \E i \in 0..Len(ref.title) :
                    fuzzyTest(query, SubSeq(ref.title, i + 1, Len(ref.title)))
              \/ \E i \in 0..Len(ref.path) :
                    fuzzyTest(query, SubSeq(ref.path, i + 1, Len(ref.path)))
              \/ \E i \in 0..Len(ref.abstract) :
                    fuzzyTest(query,
                              SubSeq(ref.abstract, i + 1, Len(ref.abstract)))
           THEN <<[id |-> Head(ids), foundVia |-> "regex"]>>
           ELSE <<>>)
            \o regexMatches(Tail(ids), query)

\* performRegexSearch
performRegexSearch(query, maxResults, loaded) ==
  IF ~loaded THEN <<>>
  ELSE firstN(regexMatches(FrameworkReferences, query), maxResults)

\* AppleDevDocsClient.searchFramework without platform or symbolType, the
\* loop over framework.references; its results have no foundVia
RECURSIVE simpleMatches(_, _)
simpleMatches(ids, lowerQuery) ==
  IF ids = <<>> THEN <<>>
  ELSE LET ref == IndexEntries[Head(ids)]
       IN (IF \/ includes(toLowerCase(ref.title), lowerQuery)
              \/ includes(toLowerCase(ref.abstract), lowerQuery)
           THEN <<Head(ids)>>
           ELSE <<>>)
            \o simpleMatches(Tail(ids), lowerQuery)

\* AppleDevDocsClient.searchFramework; it throws when getFramework does
searchFramework(query, maxResults, loaded) ==
  [threw |-> ~loaded,
   results |-> IF loaded
               THEN firstN(simpleMatches(FrameworkReferences,
                                         toLowerCase(query)), maxResults)
               ELSE <<>>]

\* simpleResults.map(result => ({...result, foundVia: 'direct'}))
asDirect(simpleResults) ==
  [i \in 1..Len(simpleResults) |->
     [id |-> simpleResults[i], foundVia |-> "direct"]]

\* The entries of an index search as results: they have no foundVia.
asMatches(ids) ==
  [i \in 1..Len(ids) |-> [id |-> ids[i], foundVia |-> "undefined"]]

\* A chain that goes on whatever the strategies before returned.
goesOnAnyway(results) == TRUE

\* if (matches.length === 0), if (fallbackResults.length === 0)
goesOn(results) == Len(results) = 0

\* One more strategy has run: what it returned is kept, with whether it had
\* the framework document, and the search goes on to the strategy after it,
\* or ends with the results it has.
Ran(strategy, loaded, returned, after) ==
  fbSearch' =
    [fbSearch EXCEPT
       !.ran = Append(@, [strategy |-> strategy, loaded |-> loaded,
                          returned |-> returned]),
       !.results = firstN(returned, fbSearch.maxResults),
       !.pc = IF goesOn(returned) THEN after ELSE "done"]

\* The symbol index of the technology gets its entries.
BuildIndex ==
  /\ ~fbIndexed
  /\ fbIndexed' = TRUE
  /\ UNCHANGED <<fbSearch, hsFound>>
  /\ UNCHANGED <<state, cacheFiles, dlVars, srvVars, fcVars, clVars, ixVars, tkVars, lruVars, liVars>>

\* search_symbols: the search of the index, with room for the filters
SearchIndex(query, maxResults) ==
  /\ fbSearch.pc \in {"idle", "done"}
  /\ LET indexed == IF fbIndexed
                    THEN FrameworkReferences \o ExpandedReferences
                    ELSE <<>>
         matches == asMatches(searchEntries(indexed, query, maxResults * 2))
     IN fbSearch' =
          [pc |-> IF goesOn(matches) THEN "hierarchical" ELSE "done",
           query |-> query, maxResults |-> maxResults,
           ran |-> <<[strategy |-> "index", loaded |-> TRUE,
                      returned |-> matches]>>,
           results |-> firstN(matches, maxResults)]
  /\ UNCHANGED <<fbIndexed, hsFound>>
  /\ UNCHANGED <<state, cacheFiles, dlVars, srvVars, fcVars, clVars, ixVars, tkVars, lruVars, liVars>>

\* performFallbackSearches, "Try hierarchical search first"
TryHierarchicalSearch(loaded, expanded) ==
  /\ fbSearch.pc = "hierarchical"
  /\ Ran("hierarchical", loaded,
         performHierarchicalSearch(fbSearch.query, fbSearch.maxResults,
                                   loaded, expanded),
         "regex")
  /\ UNCHANGED <<fbIndexed, hsFound>>
  /\ UNCHANGED <<state, cacheFiles, dlVars, srvVars, fcVars, clVars, ixVars, tkVars, lruVars, liVars>>

\* performFallbackSearches, "If still no results, try regex search"
TryRegexSearch(loaded) ==
  /\ fbSearch.pc = "regex"
  /\ Ran("regex", loaded,
         performRegexSearch(fbSearch.query, fbSearch.maxResults, loaded),
         "framework")
  /\ UNCHANGED <<fbIndexed, hsFound>>
  /\ UNCHANGED <<state, cacheFiles, dlVars, srvVars, fcVars, clVars, ixVars, tkVars, lruVars, liVars>>

\* performFallbackSearches, "try the original simple search"; an error of
\* searchFramework is caught and leaves the results empty
TrySimpleSearch(loaded) ==
  /\ fbSearch.pc = "framework"
  /\ LET simple == searchFramework(fbSearch.query, fbSearch.maxResults, loaded)
     IN Ran("framework", loaded,
            IF simple.threw THEN <<>> ELSE asDirect(simple.results),
            "done")
  /\ UNCHANGED <<fbIndexed, hsFound>>
  /\ UNCHANGED <<state, cacheFiles, dlVars, srvVars, fcVars, clVars, ixVars, tkVars, lruVars, liVars>>

InitFallback == CoreIdle /\ LibInit

NextFallback ==
  \/ BuildIndex
  \/ \E query \in FallbackQueries, maxResults \in FallbackLimits :
       SearchIndex(query, maxResults)
  \/ \E loaded \in BOOLEAN, expanded \in BOOLEAN :
       TryHierarchicalSearch(loaded, expanded)
  \/ \E loaded \in BOOLEAN : TryRegexSearch(loaded)
  \/ \E loaded \in BOOLEAN : TrySimpleSearch(loaded)

SpecFallback == InitFallback /\ [][NextFallback]_vars

\* ---------------------------------------------------------------------
\* Claims about the order of the strategies
\* ---------------------------------------------------------------------

StrategyOrder == <<"index", "hierarchical", "regex", "framework">>

\* The strategies that have run are the first ones of the fixed order, and
\* each ran after every one before it had returned nothing.
RanInOrder ==
  /\ Len(fbSearch.ran) <= Len(StrategyOrder)
  /\ \A i \in 1..Len(fbSearch.ran) :
       /\ fbSearch.ran[i].strategy = StrategyOrder[i]
       /\ \A j \in 1..(i - 1) : fbSearch.ran[j].returned = <<>>

\* The last strategy that ran.
LastRan == fbSearch.ran[Len(fbSearch.ran)]

\* The results of a finished search are what the last strategy that ran
\* returned, cut at maxResults; with RanInOrder that is the first strategy
\* with a non-empty list, or no result at all after all four strategies.
ResultsOfFirstNonEmpty ==
  fbSearch.pc = "done" =>
    /\ fbSearch.results = firstN(LastRan.returned, fbSearch.maxResults)
    /\ (fbSearch.results = <<>>) = (LastRan.returned = <<>>)
    /\ fbSearch.results = <<>> => Len(fbSearch.ran) = Len(StrategyOrder)

\* The one tag of each fallback strategy.
TagOf(strategy) ==
  CASE strategy = "hierarchical" -> "hierarchical"
    [] strategy = "regex" -> "regex"
    [] strategy = "framework" -> "direct"

TagsOf(strategy, id, query) ==
  CASE strategy = "index" -> {"undefined"}
    [] strategy = "hierarchical" ->
         IF includes(toLowerCase(IndexEntries[id].title), toLowerCase(query))
         THEN {"direct", "hierarchical"}
         ELSE {"hierarchical"}
    [] strategy = "regex" -> {"regex"}
    [] strategy = "framework" -> {"direct"}

HierarchicalSearched ==
  /\ fbSearch.pc = "done"
  /\ Len(fbSearch.ran) >= 2
  /\ fbSearch.ran[2].loaded

\* The result of the search for the reference, if there is one.
ResultsFor(id) ==
  {fbSearch.results[i] : i \in {j \in 1..Len(fbSearch.results) :
                                  fbSearch.results[j].id = id}}

TitleHoldsQuery(id) ==
  includes(toLowerCase(IndexEntries[id].title), toLowerCase(fbSearch.query))
PathHoldsQuery(id) ==
  includes(toLowerCase(IndexEntries[id].path), toLowerCase(fbSearch.query))
AbstractHoldsQuery(id) ==
  includes(toLowerCase(IndexEntries[id].abstract), toLowerCase(fbSearch.query))

\* A hierarchical-search result is tagged "direct" exactly when its title
\* holds the query.
DirectIffTitle(result) ==
  (result.foundVia = "direct") = TitleHoldsQuery(result.id)

\* One segment of the reference's URL path holds the query.
SegmentHoldsQuery(id) ==
  \E i \in 0..Len(IndexEntries[id].path) :
    \E j \in i..Len(IndexEntries[id].path) :
      /\ \A k \in (i + 1)..j : IndexEntries[id].path[k] # "/"
      /\ includes(toLowerCase(SubSeq(IndexEntries[id].path, i + 1, j)),
                  toLowerCase(fbSearch.query))

\* The references of the framework document before the k-th that match the
\* query by title, path segment or abstract.
MatchesBefore(k) ==
  {i \in 1..(k - 1) :
     \/ TitleHoldsQuery(FrameworkReferences[i])
     \/ SegmentHoldsQuery(FrameworkReferences[i])
     \/ AbstractHoldsQuery(FrameworkReferences[i])}

C22_SearchRunsDownloader ==
  [][\A s \in Slots :
       (/\ \/ \E query \in Queries : SearchSymbols(s, query)
           \/ SearchFrameworkReturns(s)
        /\ reqs'[s] = IdleReq
        /\ lastReply'.reply \in {"results", "no_results"}
        /\ state'.localSymbolIndex # Undefined
        /\ getSymbolCount(The(state'.localSymbolIndex)) < 50)
       => dlCalls' > 0]_vars

\* ---------------------------------------------------------------------
\* search_symbols with its platform and symbolType filters
\* ---------------------------------------------------------------------

\* The arguments of the calls; an empty platform or symbolType is no filter.
HandlerQueries == {<<"u", "i">>, <<"b", "u", "t", "t", "o", "n">>}
HandlerLimits == {1, 20}
PlatformFilters == {<<>>, <<"m", "a", "c">>, <<"O", "S">>}
SymbolTypeFilters == {<<>>, <<"s", "t">>, <<"S", "t", "r", "u", "c", "t">>}

\* `${p.name} ${p.introducedAt}` of formatPlatforms, for a platform
\* introduced at version 1
formatPlatform(name) == name \o <<" ", "1">>

\* result.platforms.some(p => p.toLowerCase().includes(platformLower))
platformPasses(result, platform) ==
  \/ platform = <<>>
  \/ \E i \in 1..Len(result.platforms) :
       includes(toLowerCase(result.platforms[i]), toLowerCase(platform))

\* result.kind.toLowerCase().includes(typeLower)
symbolTypePasses(result, symbolType) ==
  \/ symbolType = <<>>
  \/ includes(toLowerCase(result.kind), toLowerCase(symbolType))

\* The two filter calls of the handler over the results of the search.
RECURSIVE filterResults(_, _, _)
filterResults(results, platform, symbolType) ==
  IF results = <<>> THEN <<>>
  ELSE (IF /\ platformPasses(Head(results), platform)
           /\ symbolTypePasses(Head(results), symbolType)
        THEN <<Head(results)>>
        ELSE <<>>)
         \o filterResults(Tail(results), platform, symbolType)

\* The entries techLocalIndex.search returns.
indexResults(ids) ==
  [i \in 1..Len(ids) |->
     [id |-> ids[i], kind |-> IndexEntries[ids[i]].kind,
      platforms |-> IndexEntries[ids[i]].platforms]]

\* AppleDevDocsClient.searchFramework with platform and symbolType, the loop
\* over framework.references
RECURSIVE frameworkMatches(_, _, _, _)
frameworkMatches(ids, lowerQuery, platform, symbolType) ==
  IF ids = <<>> THEN <<>>
  ELSE LET ref == IndexEntries[Head(ids)]
       IN (IF /\ \/ includes(toLowerCase(ref.title), lowerQuery)
                 \/ includes(toLowerCase(ref.abstract), lowerQuery)
              /\ \/ symbolType = <<>>
                 \/ toLowerCase(ref.kind) = toLowerCase(symbolType)
              /\ \/ platform = <<>>
                 \/ \E i \in 1..Len(ref.platforms) :
                      includes(toLowerCase(ref.platforms[i]),
                               toLowerCase(platform))
           THEN <<Head(ids)>>
           ELSE <<>>)
            \o frameworkMatches(Tail(ids), lowerQuery, platform, symbolType)

\* frameworkResults.map(r => ({id: r.path ?? r.title, kind: r.symbolKind ??
\* 'symbol', platforms: r.platforms.split(', '), ...}))
frameworkResults(ids) ==
  [i \in 1..Len(ids) |->
     [id |-> ids[i], kind |-> IndexEntries[ids[i]].kind,
      platforms |-> [j \in 1..Len(IndexEntries[ids[i]].platforms) |->
                       formatPlatform(IndexEntries[ids[i]].platforms[j])]]]

\* search_symbols with an active technology: the search of the index, the
\* search of the framework's references when the index gave nothing, the
\* filters and the slice. loaded: getFramework returned the document;
\* without it the handler throws.
SearchSymbolsFiltered(query, maxResults, platform, symbolType, loaded) ==
  /\ hsFound.calls < MaxFilteredSearches
  /\ LET symbolResults ==
           indexResults(searchEntries(ixSymbols, query, maxResults * 2))
         fallback == symbolResults = <<>> /\ Len(ixSymbols) < 50
         found ==
           IF fallback
           THEN frameworkResults(
                  firstN(frameworkMatches(FrameworkReferences,
                                          toLowerCase(query), platform,
                                          symbolType),
                         maxResults * 2))
           ELSE symbolResults
         filteredResults == filterResults(found, platform, symbolType)
     IN hsFound' =
          IF fallback /\ ~loaded
          THEN [NoFilteredSearch EXCEPT
                  !.calls = hsFound.calls + 1,
                  !.via = "error", !.query = query,
                  !.maxResults = maxResults, !.platform = platform,
                  !.symbolType = symbolType, !.ids = ixSymbols]
          ELSE [calls |-> hsFound.calls + 1,
                via |-> IF fallback THEN "framework" ELSE "index",
                query |-> query, maxResults |-> maxResults,
                platform |-> platform, symbolType |-> symbolType,
                ids |-> ixSymbols, found |-> found,
                kept |-> filteredResults,
                results |-> firstN(filteredResults, maxResults)]
  /\ UNCHANGED <<fbIndexed, fbSearch>>
  /\ UNCHANGED <<state, cacheFiles, dlVars, srvVars, fcVars, clVars, ixVars, tkVars, lruVars, liVars>>

InitHandler == CoreIdle /\ LibInit

NextHandler ==
  \/ \E id \in DOMAIN IndexEntries : IndexSet(id)
  \/ \E query \in HandlerQueries, maxResults \in HandlerLimits,
        platform \in PlatformFilters, symbolType \in SymbolTypeFilters,
        loaded \in BOOLEAN :
       SearchSymbolsFiltered(query, maxResults, platform, symbolType, loaded)

SpecHandler == InitHandler /\ [][NextHandler]_vars

\* ---------------------------------------------------------------------
\* Claims about the filters and the number of results
\* ---------------------------------------------------------------------

\* One of the result's platform names contains the filter, case-insensitive.
PlatformHolds(result) ==
  \E i \in 1..Len(result.platforms) :
    includes(toLowerCase(result.platforms[i]), toLowerCase(hsFound.platform))

\* The result's kind equals the filter, case-insensitive.
KindEquals(result) ==
  toLowerCase(result.kind) = toLowerCase(hsFound.symbolType)

IsKept(result) == \E j \in 1..Len(hsFound.kept) : hsFound.kept[j] = result

\* C23: under a platform filter a result is kept exactly when one of its
\* platform names contains the filter as a case-insensitive substring, and
\* under a symbolType filter exactly when its kind equals the filter
\* case-insensitively.
C23_FiltersKeepExactly ==
  hsFound.via \in {"index", "framework"} =>
    \A i \in 1..Len(hsFound.found) :
      IsKept(hsFound.found[i])
        = (/\ hsFound.platform # <<>> => PlatformHolds(hsFound.found[i])
           /\ hsFound.symbolType # <<>> => KindEquals(hsFound.found[i]))

\* The indexed entries with a positive score for the query that pass the
\* filters of the handler.
MatchingEntries ==
  {i \in 1..Len(hsFound.ids) :
     LET entry == IndexEntries[hsFound.ids[i]]
     IN /\ scoreOf(entry, hsFound.query) > 0
        /\ platformPasses(entry, hsFound.platform)
        /\ symbolTypePasses(entry, hsFound.symbolType)}

\* C30: a search answered from the index returns exactly min(maxResults, k)
\* matches, k being the number of indexed entries with a positive score
\* that pass the platform and symbolType filters.
C30_ReturnsMinOfLimitAndMatches ==
  hsFound.via = "index" =>
    Len(hsFound.results)
      = (IF hsFound.maxResults < Cardinality(MatchingEntries)
         THEN hsFound.maxResults
         ELSE Cardinality(MatchingEntries))

\* ---------------------------------------------------------------------
\* tokenize on pieces of joined capitalized words
\* ---------------------------------------------------------------------

\* The capitalized words a piece is joined of.
Words ==
  {<<"G", "r", "i", "d">>, <<"I", "t", "e", "m">>, <<"L", "a", "z", "y">>,
   <<"B", "u", "t", "t", "o", "n">>}

\* words.join('')
RECURSIVE joined(_)
joined(words) ==
  IF words = <<>> THEN <<>> ELSE Head(words) \o joined(Tail(words))

\* tokenize(text) returns.
Tokenize ==
  /\ ~tkDone
  /\ tkDone' = TRUE
  /\ tkTokens' = tokenize(joined(tkWords))
  /\ UNCHANGED tkWords
  /\ UNCHANGED <<state, cacheFiles, dlVars, srvVars, fcVars, clVars, ixVars,
                 fbVars, lruVars, liVars>>

InitTokenize ==
  /\ CoreIdle
  /\ NewFileCache /\ NewClient /\ NewIndex /\ NewSymbolSearch /\ NewLRUCache
  /\ NewIndexOfUi
  /\ tkWords \in UNION {[1..n -> Words] : n \in 1..MaxWords}
  /\ tkDone = FALSE
  /\ tkTokens = {}

NextTokenize == Tokenize

SpecTokenize == InitTokenize /\ [][NextTokenize]_vars

\* C24: the tokens of a piece joined of capitalized words hold the piece as
\* written, the piece in lower case and every word of it in lower case;
\* those of "GridItem" hold grid, item, griditem and GridItem.
C24_TokensOfJoinedWords ==
  tkDone =>
    /\ joined(tkWords) \in tkTokens
    /\ toLowerCase(joined(tkWords)) \in tkTokens
    /\ \A i \in 1..Len(tkWords) : toLowerCase(tkWords[i]) \in tkTokens
    /\ tkWords = <<<<"G", "r", "i", "d">>, <<"I", "t", "e", "m">>>> =>
         {<<"g", "r", "i", "d">>, <<"i", "t", "e", "m">>,
          <<"g", "r", "i", "d", "i", "t", "e", "m">>,
          <<"G", "r", "i", "d", "I", "t", "e", "m">>} \subseteq tkTokens

\* tokenize("GridItem") has returned.
C24_Witness ==
  /\ tkDone
  /\ joined(tkWords) = <<"G", "r", "i", "d", "I", "t", "e", "m">>
  /\ <<"i", "t", "e", "m">> \in tkTokens

\* ---------------------------------------------------------------------
\* The states of an identifier in one call of the downloader
\* ---------------------------------------------------------------------

\* The promises whose fetch attempt starts in this step.
EntersFetching ==
  {i \in 1..Len(dlTasks') :
     /\ dlTasks'[i].st = "fetching"
     /\ ~(i \in 1..Len(dlTasks) /\ dlTasks[i].id = dlTasks'[i].id
          /\ dlTasks[i].st = "fetching" /\ dlPhase = "layer")}

\* C25: an identifier is marked downloaded only in a step in which one of
\* its fetch attempts succeeds, and no fetch attempt starts for an
\* identifier that is marked downloaded or whose attempts are exhausted in
\* this call of the downloader.
C25_PendingFetchingCachedOrFailed ==
  [][/\ \A identifier \in downloadedSymbols' \ downloadedSymbols :
          \E i \in 1..Len(dlTasks) :
            /\ dlTasks[i].id = identifier
            /\ dlTasks[i].st = "fetching"
            /\ dlTasks'[i].st = "done"
     /\ \A i \in EntersFetching :
          /\ dlTasks'[i].id \notin downloadedSymbols
          /\ dlTasks'[i].id \notin dlExhausted]_vars

\* ---------------------------------------------------------------------
\* The technology the framework data in state was produced for
\* ---------------------------------------------------------------------

\* The references and topic identifiers the documents of a technology hold.
ReferencesOf(technology) ==
  {ref.id : ref \in FrameworkData(technology).references}
    \cup UNION {{ref.id : ref \in SymbolData(path).references} :
                  path \in {symbolPathOf(FrameworkData(technology)
                                           .topicIdentifiers[i]) :
                              i \in 1..Len(FrameworkData(technology)
                                             .topicIdentifiers)}}

TopicIdentifiersOf(technology) ==
  {FrameworkData(technology).topicIdentifiers[i] :
     i \in 1..Len(FrameworkData(technology).topicIdentifiers)}

\* C26: whatever the interleaving of a technology switch with the requests
\* that wait for a fetch, the framework document in state is that of the
\* active technology, the framework index holds references of its
\* documents only, and the identifiers marked expanded are its own.
C26_StateIsOfActiveTechnology ==
  /\ state.activeFrameworkData # None =>
       state.activeFrameworkData = state.activeTechnology
  /\ state.frameworkIndex # Undefined =>
       /\ state.activeTechnology # None
       /\ indexMaps[The(state.frameworkIndex)]
            \subseteq ReferencesOf(state.activeTechnology)
  /\ state.expandedIdentifiers # {} =>
       /\ state.activeTechnology # None
       /\ state.expandedIdentifiers
            \subseteq TopicIdentifiersOf(state.activeTechnology)

\* ---------------------------------------------------------------------
\* The technology of the entries of a LocalSymbolIndex
\* ---------------------------------------------------------------------

\* The references the documents of the origin hold.
KnownReferences ==
  {RefA, RefB, RefC} \cup {TechnologyRef(t) : t \in DOMAIN Catalog}

\* The path of the entry stored under a key: the url of the reference for
\* a reference key, the key itself when it is the url of a document, and
\* the empty path of a document stored under its title.
EntryPath(key) ==
  IF \E ref \in KnownReferences : ref.id = key
  THEN (CHOOSE ref \in KnownReferences : ref.id = key).url
  ELSE IF startsWith(key, <<"/">>) THEN key
  ELSE <<>>

\* C27: the local symbol index made for a technology holds only entries
\* whose path contains the technology's name, whatever documents of other
\* technologies the cache directory holds.
C27_IndexOfOneTechnology ==
  state.localSymbolIndex # Undefined =>
    \A key \in The(state.localSymbolIndex).symbols :
      includes(toLowerCase(EntryPath(key)),
               toLowerCase(The(state.localSymbolIndex).technologyIdentifier))

\* ---------------------------------------------------------------------
\* LRUCache: the response cache of DocHttpClient
\* ---------------------------------------------------------------------

\* The keys the cache is called with; "" is the empty string.
LruKeys == {"", "a", "b"}

\* this.cache.has(key)
lruHas(cache, key) == \E i \in 1..Len(cache) : cache[i].key = key

\* this.cache.delete(key)
lruDelete(cache, key) == SelectSeq(cache, LAMBDA entry : entry.key # key)

\* firstKey && this.cache.delete(firstKey), with firstKey the first key of
\* the Map: the empty string is falsy and nothing is deleted
lruDeleteFirst(cache) ==
  IF cache = <<>> \/ cache[1].key = "" THEN cache
  ELSE lruDelete(cache, cache[1].key)

\* LRUCache.get
LruGet(key) ==
  /\ lruHas(lruCache, key)
  /\ LET entry == CHOOSE e \in {lruCache[i] : i \in 1..Len(lruCache)} :
                    e.key = key
     IN lruCache' = IF lruClock - entry.timestamp > LruTimeout
                    THEN lruDelete(lruCache, key)
                    ELSE Append(lruDelete(lruCache, key), entry)
  /\ UNCHANGED lruClock
  /\ UNCHANGED <<state, cacheFiles, dlVars, srvVars, fcVars, clVars, ixVars,
                 fbVars, tkVars, liVars>>

\* LRUCache.set
LruSet(key) ==
  /\ lruCache' =
       Append(IF lruHas(lruCache, key) THEN lruDelete(lruCache, key)
              ELSE IF Len(lruCache) >= LruMaxSize
              THEN lruDeleteFirst(lruCache)
              ELSE lruCache,
              [key |-> key, timestamp |-> lruClock])
  /\ UNCHANGED lruClock
  /\ UNCHANGED <<state, cacheFiles, dlVars, srvVars, fcVars, clVars, ixVars,
                 fbVars, tkVars, liVars>>

\* LRUCache.clear
LruClear ==
  /\ lruCache # <<>>
  /\ lruCache' = <<>>
  /\ UNCHANGED lruClock
  /\ UNCHANGED <<state, cacheFiles, dlVars, srvVars, fcVars, clVars, ixVars,
                 fbVars, tkVars, liVars>>

\* Time passes.
LruTick ==
  /\ lruClock < MaxLruTicks
  /\ lruClock' = lruClock + 1
  /\ UNCHANGED lruCache
  /\ UNCHANGED <<state, cacheFiles, dlVars, srvVars, fcVars, clVars, ixVars,
                 fbVars, tkVars, liVars>>

InitLRU == CoreIdle /\ LibInit

NextLRU ==
  \/ \E key \in LruKeys : LruGet(key)
  \/ \E key \in LruKeys : LruSet(key)
  \/ LruClear
  \/ LruTick

SpecLRU == InitLRU /\ [][NextLRU]_vars

\* C28: the cache never holds more than maxSize entries, whatever the keys
\* of the calls of get, set and clear, the empty string among them.
C28_AtMostMaxSizeEntries == Len(lruCache) <= LruMaxSize

\* ---------------------------------------------------------------------
\* Building a LocalSymbolIndex while it holds no symbol
\* ---------------------------------------------------------------------

\* The files the cache directory may come to hold.
CacheDirFiles ==
  {TechnologiesFile, FrameworkFile(Ui), FrameworkFile(Kit)}
    \cup {SymbolFile(path) : path \in SymbolPaths}

\* clear(): this.symbols.clear()
clear(index) == [index EXCEPT !.symbols = {}]

\* A document is saved in the cache directory.
FileCached(file) ==
  /\ file \notin liFiles
  /\ liFiles' = liFiles \cup {file}
  /\ liLast' = [method |-> "none", count |-> getSymbolCount(liIndex)]
  /\ UNCHANGED liIndex
  /\ UNCHANGED <<state, cacheFiles, dlVars, srvVars, fcVars, clVars, ixVars,
                 fbVars, tkVars, lruVars>>

\* await index.buildIndexFromCache()
BuildIndexFromCache ==
  /\ liIndex' = buildIndexFromCache(liIndex, liFiles)
  /\ liLast' = [method |-> "buildIndexFromCache",
                count |-> getSymbolCount(liIndex)]
  /\ UNCHANGED liFiles
  /\ UNCHANGED <<state, cacheFiles, dlVars, srvVars, fcVars, clVars, ixVars,
                 fbVars, tkVars, lruVars>>

\* index.clear()
ClearIndex ==
  /\ liIndex' = clear(liIndex)
  /\ liLast' = [method |-> "clear", count |-> getSymbolCount(liIndex)]
  /\ UNCHANGED liFiles
  /\ UNCHANGED <<state, cacheFiles, dlVars, srvVars, fcVars, clVars, ixVars,
                 fbVars, tkVars, lruVars>>

InitIndex == CoreIdle /\ LibInit

NextIndex ==
  \/ \E file \in CacheDirFiles : FileCached(file)
  \/ BuildIndexFromCache
  \/ ClearIndex

SpecIndex == InitIndex /\ [][NextIndex]_vars

\* The entries a scan of the cache directory makes for the index.
EntriesOfCache(index, files) ==
  UNION {DocumentEntries(index.technologyIdentifier, FileData(f)) : f \in files}

\* C29: a call of buildIndexFromCache on an index that holds no symbol (a
\* fresh one, a cleared one, or one whose earlier build indexed nothing)
\* scans the cache directory: when it returns the index holds the entries of
\* every document the directory holds for the technology.
C29_BuildWithNoSymbolScansCache ==
  (liLast.method = "buildIndexFromCache" /\ liLast.count = 0)
    => EntriesOfCache(liIndex, liFiles) \subseteq liIndex.symbols

====
